---- MODULE Spec2Model ----
(***************************************************************************)
(* Client-side message pipeline of the Lucky IM client.                    *)
(*                                                                         *)
(* Spec      : the chat store (src/src/store/modules/chat.ts) reconciling  *)
(*             messages into the in-memory chat list, the persisted chat   *)
(*             table and the idle task queue, under the interleavings the  *)
(*             awaits of its handlers allow.                               *)
(* QueueSpec : the inbound path of MainManager (src/src/core.ts): priority *)
(*             of an envelope, the priority queue, and the handler chained *)
(*             on every push.                                              *)
(***************************************************************************)
EXTENDS Integers, Sequences, FiniteSets, TLC

\* ------------------------------------------------------------------ bounds
NumChats == 2           \* conversations 1..NumChats (odd: single, even: group)
MaxOps == 3             \* operations started in one behaviour
MaxInFlight == 2        \* asynchronous operations suspended at the same time
MaxNow == 2             \* values Date.now() takes
MaxSeq == 2             \* sequence / messageTime values a message carries
MaxServerUnread == 1    \* unread count of a chat row returned by the server
MaxGroupOps == 2        \* group-operation events applied in one behaviour
MaxGroupCalls == 2      \* local group store calls started in one behaviour
MaxGuarded == 1          \* guarded group actions awaiting the server at once
MaxMuteNow == 3         \* values Date.now() takes while mutes are followed
MaxInitCalls == 3       \* initClient and destroy calls in one behaviour
MaxUserCalls == 3       \* login and logout calls in one behaviour
MaxRecalls == 2         \* recall directives handled in one behaviour
MaxPush == 2            \* envelopes the socket delivers in one behaviour
MaxTracked == 2         \* pushes of a continuing stream whose resolution is followed
MaxDepth == 4           \* items queued at once in a continuing stream
MaxWait == 2            \* drain cycles counted for a queued item
MaxFlows == 3           \* conversation openings and loadMore calls in one behaviour
MaxChosen == 2          \* conversation openings among them
MaxInbound == 2         \* chat envelopes resolved for the message list in one behaviour
MaxPage == 3            \* highest page.num a loadMore reaches
PageSize == 2           \* page.size
backpressureThreshold == 2  \* queue depth above which the queue is under backpressure
initialBatchSize == 1   \* items one drain cycle pulls
maxBatchSize == 2       \* items one drain cycle pulls under backpressure

VARIABLES
    chatList,       \* state.chatList: sequence of chat entries
    currentChat,    \* state.currentChat: chatId of the open conversation, 0 = null
    loading,        \* state.loading
    db,             \* persisted chats table: chatId -> row (NoChat = no row)
    chatFts,        \* chatIds having a full-text shadow row
    tasks,          \* idle task executor queue (FIFO)
    drafts,         \* draftManager.draftMap: chatIds holding a non-empty draft
    now,            \* Date.now()
    ops,            \* suspended asynchronous operations, by slot
    nOps,           \* operations started so far
    last,           \* the step just taken (history, read by the properties only)
    lanes,          \* priority queue: lane -> sequence of queued envelopes
    nPushed,        \* envelopes pushed so far
    resolved,       \* envelopes in the order their push promise resolved
    handled,        \* envelopes in the order their handler was invoked
    uncaught,       \* envelopes whose handler promise rejected with nobody catching
    group,          \* group store: members, info, currentGroupId, loading, error
    gPending,       \* group store calls suspended at their await
    nGroupOps,      \* group-operation events applied so far
    nGroupCalls,    \* local group store calls started so far
    gLast,          \* the group step just taken (history, read by the properties only)
    messageList,    \* state.messageList: the visible messages of the open conversation
    msgDb,          \* single/group message tables: messageId -> row (NoRow = no row)
    msgFts,         \* messageIds having a full-text shadow row
    msgTasks,       \* idle tasks scheduled by insertToDb and handleRecall (FIFO)
    nRecalls,       \* recall directives handled so far
    rLast,          \* the recall just handled (history, read by the properties only)
    msgLoad,        \* the getMessages call in flight, if any
    body,           \* the message body handed to stringifyBody
    bodyType,       \* its messageContentType
    encoded,        \* the JSON text stringifyBody returned
    decoded,        \* the body createMessageBody built from the JSON text
    codecStep,      \* "idle", "body", "encoded" or "decoded"
    draftMap,       \* DraftManager.draftMap: id -> html
    initialized,    \* DraftManager.initialized
    draftStore,     \* storage entry DRAFT_STORAGE_KEY
    dLast,          \* the DraftManager call just made (history, read by the properties only)
    editorContent,  \* editorRef.value.innerHTML of the input box
    saveTimer,      \* the timer of saveDraftDebounced and the chatId it was armed with
    sending,        \* handleSend is suspended at await handleSendMessage
    mounted,        \* the input box component is mounted
    sLanes,         \* priority queue under a continuing stream: lane -> queued items
    tracked,        \* the followed pushes: priority, resolutions, cycles waited
    sPushed,        \* followed pushes so far
    sLast,          \* the queue step just taken (history, read by the properties only)
    vList,          \* state.messageList as the list view shows it: messages by conversation and age
    page,           \* page: num and total
    flows,          \* handleChooseChat and loadMore calls suspended at an await
    nFlows,         \* such calls started so far
    nChosen,        \* handleChooseChat calls among them
    waiting,        \* handleChatMessage calls suspended at appIsMinimizedOrHidden
    nInbound,       \* chat envelopes resolved so far
    notification,   \* setting.notification.message
    invoked,        \* the conversation of the changeChat call invoked last (history)
    clientInitialized,  \* MainManager.initialized
    initPromise,    \* MainManager.initPromise is set
    initPc,         \* where the initialisation sequence stands
    initLog,        \* the steps the sequence has started, in order
    running,        \* initialisation sequences running
    ws,             \* the WebSocket initialisation: "none", "pending", "up" or "failed"
    nInit,          \* initClient and destroy calls so far
    iLast,          \* the MainManager step just taken (history, read by the properties only)
    token,          \* user store: token
    status,         \* user store: status
    userId,         \* user store: userInfo.userId
    loginPc,        \* where the login in flight stands
    logoutPc,       \* where the logout in flight stands
    nUser,          \* login and logout calls so far
    uLast           \* the user store step just taken (history, read by the properties only)

chatVars == <<chatList, currentChat, loading, db, chatFts, tasks, drafts, now, ops, nOps, last>>
queueVars == <<lanes, nPushed, resolved, handled, uncaught>>
groupVars == <<group, gPending, nGroupOps, nGroupCalls, gLast>>
recallVars == <<messageList, msgDb, msgFts, msgTasks, nRecalls, rLast, msgLoad>>
codecVars == <<body, bodyType, encoded, decoded, codecStep>>
draftVars == <<draftMap, initialized, draftStore, dLast>>
editorVars == <<editorContent, saveTimer, sending, mounted>>
streamVars == <<sLanes, tracked, sPushed, sLast>>
listVars == <<vList, page, flows, nFlows, nChosen, waiting, nInbound, notification,
              invoked>>
coreVars == <<clientInitialized, initPromise, initPc, initLog, running, ws, nInit, iLast>>
userVars == <<token, status, userId, loginPc, logoutPc, nUser, uLast>>
restVars == <<codecVars, draftVars, editorVars, streamVars, listVars, coreVars, userVars>>
nonCoreVars ==
    <<chatVars, queueVars, groupVars, recallVars, codecVars, draftVars, editorVars, streamVars,
      listVars, userVars>>
nonUserVars ==
    <<chatVars, queueVars, groupVars, recallVars, codecVars, draftVars, editorVars, streamVars,
      listVars, coreVars>>
nonCodecVars ==
    <<chatVars, queueVars, groupVars, recallVars, draftVars, editorVars, streamVars,
      listVars, coreVars, userVars>>
nonDraftVars ==
    <<chatVars, queueVars, groupVars, recallVars, codecVars, editorVars, streamVars,
      listVars, coreVars, userVars>>
nonStreamVars ==
    <<chatVars, queueVars, groupVars, recallVars, codecVars, draftVars, editorVars,
      listVars, coreVars, userVars>>
nonChatVars == <<queueVars, groupVars, recallVars, restVars>>
nonQueueVars == <<chatVars, groupVars, recallVars, restVars>>
nonGroupVars == <<chatVars, queueVars, recallVars, restVars>>
nonRecallVars == <<chatVars, queueVars, groupVars, restVars>>
vars == <<chatVars, queueVars, groupVars, recallVars, restVars>>

\* ------------------------------------------------------------- data model
Chats == 1..NumChats
Slots == 1..MaxInFlight
OwnerId == "me"

\* toId of the conversation with chatId c (the peer's or the group's id)
ToIdOf(c) == 10 + c
ChatIdOfTo(t) == t - 10
ToIds == {ToIdOf(c) : c \in Chats}
ChatTypeOf(c) == IF c % 2 = 1 THEN "SINGLE" ELSE "GROUP"

\* a preview string is <<format, sequence of the message it shows>>
Empty == <<"none", 0>>
DraftPreview == <<"draft", 0>>

NoChat == [chatId |-> 0, toId |-> 0, unread |-> 0, isTop |-> 0, isMute |-> 0,
           messageTime |-> 0, sequence |-> 0, message |-> Empty]
NoMsg == [fromId |-> "none", messageTime |-> 0, sequence |-> 0]

\* messages an envelope or a send response can carry for conversation c:
\* a single-chat message is keyed by its sender, so it is the peer's; the
\* server stamps a message with a sequence and a time that grow together
Senders(c) == IF ChatTypeOf(c) = "SINGLE" THEN {"peer"} ELSE {"peer", OwnerId}
Stamped(f, n) == [fromId |-> f, messageTime |-> n, sequence |-> n]
Messages(c) == {Stamped(f, n) : f \in Senders(c), n \in 1..MaxSeq}
SentMessages == {Stamped(OwnerId, n) : n \in 1..MaxSeq}

\* what api.GetChat / api.CreateChat may return for toId t
ServerChats(t) ==
    {[NoChat EXCEPT !.chatId = ChatIdOfTo(t), !.toId = t, !.unread = u] :
        u \in 0..MaxServerUnread}

\* a suspended operation: its kind and position, the conversation and message
\* it was called with, the row its store query returned, and the chat object
\* it holds once that object is no longer the list's entry, and whether its
\* store query failed
FreeOp == [kind |-> "none", pc |-> "free", chat |-> 0, msg |-> NoMsg, row |-> NoChat,
           obj |-> NoChat, failed |-> FALSE]
\* the step just taken: the operation that completed, the conversation it was
\* about, that conversation's list entry before the step, the chat object the
\* step worked on, the open conversation before the step, the message merged,
\* where createOrUpdate found the chat, whether the operation ended by
\* throwing to its caller, and whether it played the message alert
NoLast == [act |-> "none", chat |-> 0, pre |-> NoChat, base |-> NoChat, cur |-> 0,
           msg |-> NoMsg, src |-> "none", threw |-> FALSE, played |-> FALSE]

\* --------------------------------------------------------- pure functions
\* findChatIndex: index of the entry with this chatId, 0 standing for -1
findChatIndex(list, chatId) ==
    IF chatId # 0 /\ \E i \in 1..Len(list) : list[i].chatId = chatId
    THEN CHOOSE i \in 1..Len(list) :
            /\ list[i].chatId = chatId
            /\ \A j \in 1..(i - 1) : list[j].chatId # chatId
    ELSE 0

InList(list, chatId) == findChatIndex(list, chatId) # 0
Entry(list, chatId) ==
    IF InList(list, chatId) THEN list[findChatIndex(list, chatId)] ELSE NoChat

\* the comparator of sortList is negative: a sorts before b
SortsBefore(a, b) ==
    \/ a.isTop > b.isTop
    \/ a.isTop = b.isTop /\ a.messageTime > b.messageTime

RECURSIVE InsertSorted(_, _)
InsertSorted(x, s) ==
    IF s = <<>> THEN <<x>>
    ELSE IF SortsBefore(x, Head(s)) THEN <<x>> \o s
    ELSE <<Head(s)>> \o InsertSorted(x, Tail(s))

RECURSIVE SortFrom(_, _)
SortFrom(done, rest) ==
    IF rest = <<>> THEN done
    ELSE SortFrom(InsertSorted(Head(rest), done), Tail(rest))

\* sortList: Array.prototype.sort is stable
sortList(list) == SortFrom(<<>>, list)

IsSorted(list) ==
    \A i, j \in 1..Len(list) : i < j => ~SortsBefore(list[j], list[i])

\* an upsert that pushes without looking for the entry
upsert_AlwaysPushes(list, chat) == IF chat.chatId = 0 THEN list ELSE Append(list, chat)

\* upsert: Object.assign into the entry with this chatId, or push
upsert(list, chat) ==
    IF chat.chatId = 0 THEN list
    ELSE IF InList(list, chat.chatId)
         THEN [list EXCEPT ![findChatIndex(list, chat.chatId)] = chat]
         ELSE Append(list, chat)

\* buildPreview: the three renderings of one message
buildPreview(m) ==
    [html |-> <<"html", m.sequence>>,
     plainText |-> <<"plain", m.sequence>>,
     originalText |-> <<"orig", m.sequence>>]

\* removeMentionHighlightsFromHtml(..., {returnPlainText: true})
PlainTextOf(message) ==
    IF message[1] \in {"none", "draft"} THEN message ELSE <<"plain", message[2]>>

CurToId(cur) == IF cur = 0 THEN 0 ELSE ToIdOf(cur)

\* updateWithMsg with the isNew parameter ignored: a chat that is just being
\* added to the list counts the message as unread too
updateWithMsg_CountsNew(chat, m, isNew, cur, t) ==
    IF m = NoMsg
    THEN [chat EXCEPT !.message = Empty, !.messageTime = t, !.sequence = t, !.unread = 0]
    ELSE LET isCurrent == chat.toId = CurToId(cur)
         IN  [chat EXCEPT
                !.unread = IF ~isCurrent THEN @ + 1 ELSE @,
                !.message = IF ~isCurrent THEN buildPreview(m).html
                            ELSE buildPreview(m).plainText,
                !.messageTime = IF m.messageTime # 0 THEN m.messageTime ELSE t,
                !.sequence = IF m.sequence # 0 THEN m.sequence ELSE t]

\* updateWithMsg: the chat entry after merging message m (NoMsg: no message)
updateWithMsg(chat, m, isNew, cur, t) ==
    IF m = NoMsg
    THEN [chat EXCEPT !.message = Empty, !.messageTime = t, !.sequence = t, !.unread = 0]
    ELSE LET isCurrent == chat.toId = CurToId(cur)
             preview == buildPreview(m)
         IN  [chat EXCEPT
                !.unread = IF ~isCurrent /\ ~isNew THEN @ + 1 ELSE @,
                !.message = IF ~isCurrent /\ ~isNew THEN preview.html
                            ELSE preview.plainText,
                !.messageTime = IF m.messageTime # 0 THEN m.messageTime ELSE t,
                !.sequence = IF m.sequence # 0 THEN m.sequence ELSE t]

\* the row updateWithMsg hands to persist
PersistedRow(chat, m) ==
    [chat EXCEPT !.message = IF m = NoMsg THEN Empty ELSE buildPreview(m).originalText]

PersistTask(chat, m) ==
    [type |-> "insertOrUpdate", chatId |-> chat.chatId, row |-> PersistedRow(chat, m)]
UnreadTask(chatId, unread) ==
    [type |-> "updateById", chatId |-> chatId, row |-> [NoChat EXCEPT !.unread = unread]]
DeleteTask(chatId) ==
    [type |-> "deleteById", chatId |-> chatId, row |-> NoChat]

\* persist with an executor that puts a new task in front of the queued ones
persist_AtFront(queue, chat, m) ==
    IF chat.chatId = 0 THEN queue ELSE <<PersistTask(chat, m)>> \o queue

\* persist: no task for a chat without chatId
persist(queue, chat, m) ==
    IF chat.chatId = 0 THEN queue ELSE Append(queue, PersistTask(chat, m))

\* saveDraft: the draft of the open conversation becomes its preview
saveDraft(list, cur, draftSet, t) ==
    IF cur = 0 \/ cur \notin draftSet THEN list
    ELSE IF InList(list, cur)
         THEN [list EXCEPT ![findChatIndex(list, cur)] =
                    [@ EXCEPT !.message = DraftPreview, !.messageTime = t]]
         ELSE Append(list, [NoChat EXCEPT !.chatId = cur, !.message = DraftPreview,
                                          !.messageTime = t])

\* chatsMapper.selectList(ownerId, toId)[0]
SelectByToId(table, t) ==
    IF \E c \in Chats : table[c] # NoChat /\ table[c].toId = t
    THEN table[CHOOSE c \in Chats : table[c] # NoChat /\ table[c].toId = t]
    ELSE NoChat

\* ------------------------------------------------------ operation slots
FreeSlots == {p \in Slots : ops[p].pc = "free"}
NewSlot == CHOOSE p \in FreeSlots : \A q \in FreeSlots : p <= q
CanCall == nOps < MaxOps
CanStart == CanCall /\ FreeSlots # {}
Quiet == \A p \in Slots : ops[p].pc = "free"

Started(op) == [ops EXCEPT ![NewSlot] = op]
Finished(p) == [ops EXCEPT ![p] = FreeOp]
At(p, kind, pc) == ops[p].kind = kind /\ ops[p].pc = pc

\* a chat object spliced out of the list lives on in the operations that hold
\* a reference to it (the item handleChooseChat was called with)
Detach(opsNow, entry) ==
    [p \in Slots |->
        IF /\ opsNow[p].kind = "handleChooseChat"
           /\ opsNow[p].chat = entry.chatId
           /\ opsNow[p].obj = NoChat
        THEN [opsNow[p] EXCEPT !.obj = entry] ELSE opsNow[p]]

\* ------------------------------------------------------ initChat
\* chatsMapper.selectList(): the rows of the chats table
selectList(table) == SelectSeq(table, LAMBDA row : row # NoChat)

\* initChat on an empty list, up to its await (on a list that has entries it
\* returns at once)
InitChat ==
    /\ CanStart
    /\ chatList = <<>>
    /\ loading' = TRUE
    /\ ops' = Started([FreeOp EXCEPT !.kind = "initChat", !.pc = "init_select"])
    /\ nOps' = nOps + 1
    /\ last' = NoLast
    /\ UNCHANGED <<chatList, currentChat, db, chatFts, tasks, drafts, now, nonChatVars>>

\* selectList answers or fails: a non-empty result replaces the list
InitChatResume(p) ==
    /\ At(p, "initChat", "init_select")
    /\ \E ok \in BOOLEAN :
        LET data == IF ok THEN selectList(db) ELSE <<>>
        IN  /\ chatList' = IF data # <<>> THEN data ELSE chatList
            /\ last' = IF data # <<>>
                       THEN [NoLast EXCEPT !.act = "initChat", !.cur = currentChat]
                       ELSE NoLast
    /\ loading' = FALSE
    /\ ops' = Finished(p)
    /\ UNCHANGED <<currentChat, db, chatFts, tasks, drafts, now, nOps, nonChatVars>>

\* ------------------------------------------------------ createOrUpdate
\* handleChatMessage: the decoded message goes to createOrUpdate, which
\* suspends on the store query
HandleChatMessage(c, m) ==
    /\ CanStart
    /\ loading' = TRUE
    /\ ops' = Started([FreeOp EXCEPT !.kind = "createOrUpdate", !.pc = "cou_query",
                                     !.chat = ToIdOf(c), !.msg = m])
    /\ nOps' = nOps + 1
    /\ last' = NoLast
    /\ UNCHANGED <<chatList, currentChat, db, chatFts, tasks, drafts, now, nonChatVars>>

\* an exec that hands on a value although the call failed
exec_KeepsValue(ok, value) == value

\* exec: the value the call gives, or nothing when it fails (the error is
\* handled inside and not thrown on)
exec(ok, value) == IF ok THEN value ELSE NoChat

\* triggerNotify(chat, message): whether the message alert is played
triggerNotify(chat, m) == notification /\ chat.isMute = 0 /\ m # NoMsg

\* the store answers the query of createOrUpdate, or the query fails
CouQuery(p) ==
    /\ At(p, "createOrUpdate", "cou_query")
    /\ \E ok \in BOOLEAN :
        /\ ops' = [ops EXCEPT ![p].pc = "cou_resume", ![p].failed = ~ok,
                              ![p].row = exec(ok, SelectByToId(db, ops[p].chat))]
        /\ last' = IF ok THEN NoLast ELSE [NoLast EXCEPT !.act = "queryFailed"]
    /\ UNCHANGED <<chatList, currentChat, loading, db, chatFts, tasks, drafts, now, nOps,
                   nonChatVars>>

\* createOrUpdate resumes with the row the store returned
CouResume(p) ==
    /\ At(p, "createOrUpdate", "cou_resume")
    /\ LET row == ops[p].row
           m == ops[p].msg
           idx == findChatIndex(chatList, row.chatId)
           merged == IF idx # 0
                     THEN updateWithMsg(chatList[idx], m, FALSE, currentChat, now)
                     ELSE updateWithMsg(row, m, TRUE, currentChat, now)
       IN  IF row # NoChat
           THEN /\ chatList' = sortList(upsert(chatList, merged))
                /\ tasks' = persist(tasks, merged, m)
                /\ loading' = FALSE
                /\ ops' = Finished(p)
                /\ last' = [act |-> "createOrUpdate", chat |-> row.chatId,
                            pre |-> Entry(chatList, row.chatId),
                            base |-> IF idx # 0 THEN chatList[idx] ELSE row,
                            cur |-> currentChat, msg |-> m,
                            src |-> IF idx # 0 THEN "memory" ELSE "store",
                            threw |-> FALSE,
                            played |-> m.fromId # OwnerId /\ triggerNotify(row, m)]
           ELSE /\ ops' = [ops EXCEPT ![p].pc = "cou_fetch"]
                /\ last' = NoLast
                /\ UNCHANGED <<chatList, tasks, loading>>
    /\ UNCHANGED <<currentChat, db, chatFts, drafts, now, nOps, nonChatVars>>

\* api.GetChat answers, or the call fails and exec gives no value
CouFetch(p) ==
    /\ At(p, "createOrUpdate", "cou_fetch")
    /\ \E ok \in BOOLEAN : \E res \in ServerChats(ops[p].chat) :
        LET m == ops[p].msg
            chat == exec(ok, res)
            merged == updateWithMsg(chat, m, TRUE, currentChat, now)
            bothFailed == ops[p].failed /\ ~ok
        IN  IF chat # NoChat
            THEN /\ chatList' = sortList(upsert(chatList, merged))
                 /\ tasks' = persist(tasks, merged, m)
                 /\ last' = [act |-> IF bothFailed THEN "createOrUpdateFailed"
                                     ELSE "createOrUpdate",
                             chat |-> chat.chatId,
                             pre |-> Entry(chatList, chat.chatId), base |-> chat,
                             cur |-> currentChat, msg |-> m, src |-> "server",
                             threw |-> FALSE, played |-> FALSE]
            ELSE /\ last' = IF bothFailed
                            THEN [NoLast EXCEPT !.act = "createOrUpdateFailed",
                                                !.cur = currentChat, !.msg = m]
                            ELSE NoLast
                 /\ UNCHANGED <<chatList, tasks>>
    /\ loading' = FALSE
    /\ ops' = Finished(p)
    /\ UNCHANGED <<currentChat, db, chatFts, drafts, now, nOps, nonChatVars>>

\* ------------------------------------------------------ sending
\* send: the message goes to the server first
Send ==
    /\ CanStart
    /\ currentChat # 0
    /\ ops' = Started([FreeOp EXCEPT !.kind = "send", !.pc = "send_api",
                                     !.chat = ToIdOf(currentChat)])
    /\ nOps' = nOps + 1
    /\ last' = NoLast
    /\ UNCHANGED <<chatList, currentChat, loading, db, chatFts, tasks, drafts, now,
                   nonChatVars>>

\* the server answers; createMessage(chat.toId, res, type, true) calls
\* createOrUpdate only when the conversation is still the open one
SendResume(p) ==
    /\ At(p, "send", "send_api")
    /\ \/ \E res \in SentMessages :
            IF ops[p].chat = CurToId(currentChat)
            THEN /\ loading' = TRUE
                 /\ ops' = [ops EXCEPT ![p].kind = "createOrUpdate",
                                       ![p].pc = "cou_query", ![p].msg = res]
            ELSE /\ ops' = Finished(p)
                 /\ UNCHANGED loading
       \/ /\ ops' = Finished(p)
          /\ UNCHANGED loading
    /\ last' = NoLast
    /\ UNCHANGED <<chatList, currentChat, db, chatFts, tasks, drafts, now, nOps, nonChatVars>>

\* ------------------------------------------------------ opening a chat
\* handleChooseChat(item): resetMessages, then suspends on mediaStore.initStorage
HandleChooseChat(c) ==
    /\ CanStart
    /\ InList(chatList, c)
    /\ ops' = Started([FreeOp EXCEPT !.kind = "handleChooseChat", !.pc = "hc_init",
                                     !.chat = c])
    /\ nOps' = nOps + 1
    /\ last' = NoLast
    /\ UNCHANGED <<chatList, currentChat, loading, db, chatFts, tasks, drafts, now,
                   nonChatVars>>

\* changeChat(item) up to its first await: saveDraft, then either the item is
\* not in the list (it is pushed and opened at once) or selectById is awaited
ChangeChatCall(p) ==
    /\ At(p, "handleChooseChat", "hc_init")
    /\ LET c == ops[p].chat
           saved == saveDraft(chatList, currentChat, drafts, now)
       IN  IF InList(saved, c)
           THEN /\ chatList' = saved
                /\ ops' = [ops EXCEPT ![p].pc = "cc_select", ![p].obj = NoChat]
                /\ last' = NoLast
                /\ UNCHANGED currentChat
           ELSE /\ chatList' = upsert(saved, ops[p].obj)
                /\ currentChat' = c
                /\ ops' = [ops EXCEPT ![p].obj = NoChat,
                              ![p].pc = IF ChatTypeOf(c) = "GROUP" THEN "cc_members"
                                        ELSE "hc_msgs"]
                /\ last' = IF ChatTypeOf(c) = "GROUP" THEN NoLast
                           ELSE [NoLast EXCEPT !.act = "changeChat", !.chat = c,
                                               !.pre = Entry(chatList, c),
                                               !.cur = currentChat]
    /\ UNCHANGED <<loading, db, chatFts, tasks, drafts, now, nOps, nonChatVars>>

\* the store answers selectById
ChangeChatSelect(p) ==
    /\ At(p, "handleChooseChat", "cc_select")
    /\ ops' = [ops EXCEPT ![p].pc = "cc_resume", ![p].row = db[ops[p].chat]]
    /\ last' = NoLast
    /\ UNCHANGED <<chatList, currentChat, loading, db, chatFts, tasks, drafts, now, nOps,
                   nonChatVars>>

\* changeChat resumes: the stored preview as plain text, sortList, the chat
\* becomes the open one (the preview goes to the object changeChat holds,
\* which deleteChat may have spliced out of the list meanwhile)
ChangeChatResume(p) ==
    /\ At(p, "handleChooseChat", "cc_resume")
    /\ LET c == ops[p].chat
           row == ops[p].row
           idx == findChatIndex(chatList, c)
           shown == IF row # NoChat /\ ops[p].obj = NoChat /\ idx # 0
                    THEN [chatList EXCEPT ![idx].message = PlainTextOf(row.message)]
                    ELSE chatList
       IN  /\ chatList' = sortList(shown)
           /\ currentChat' = c
           /\ ops' = [ops EXCEPT ![p].row = NoChat,
                         ![p].pc = IF ChatTypeOf(c) = "GROUP" THEN "cc_members"
                                   ELSE "hc_msgs"]
           /\ last' = IF ChatTypeOf(c) = "GROUP" THEN NoLast
                      ELSE [NoLast EXCEPT !.act = "changeChat", !.chat = c,
                                          !.pre = Entry(chatList, c), !.cur = currentChat]
    /\ UNCHANGED <<loading, db, chatFts, tasks, drafts, now, nOps, nonChatVars>>

\* group chat: loadMembers answers, changeChat emits the change and returns
ChangeChatMembers(p) ==
    /\ At(p, "handleChooseChat", "cc_members")
    /\ ops' = [ops EXCEPT ![p].pc = "hc_msgs"]
    /\ last' = [NoLast EXCEPT !.act = "changeChat", !.chat = ops[p].chat,
                              !.pre = Entry(chatList, ops[p].chat), !.cur = currentChat]
    /\ UNCHANGED <<chatList, currentChat, loading, db, chatFts, tasks, drafts, now, nOps,
                   nonChatVars>>

\* updateRead that only schedules the store write and leaves the entry alone
updateRead_StoreOnly(list, chatId, unread) == list

\* updateRead: unread of the entry, and the idle task writing it to the store
updateRead(list, chatId, unread) ==
    IF InList(list, chatId)
    THEN [list EXCEPT ![findChatIndex(list, chatId)].unread = unread]
    ELSE list

updateReadTask(queue, list, chatId, unread) ==
    IF InList(list, chatId) THEN Append(queue, UnreadTask(chatId, unread)) ELSE queue

\* getMessages answers (it fills the message list only), then updateRead(item)
\* runs and handleChooseChat returns
HandleChooseChatRead(p) ==
    /\ At(p, "handleChooseChat", "hc_msgs")
    /\ chatList' = updateRead(chatList, ops[p].chat, 0)
    /\ tasks' = updateReadTask(tasks, chatList, ops[p].chat, 0)
    /\ ops' = Finished(p)
    /\ last' = [NoLast EXCEPT !.act = "handleChooseChat", !.chat = ops[p].chat,
                              !.pre = Entry(chatList, ops[p].chat), !.cur = currentChat]
    /\ UNCHANGED <<currentChat, loading, db, chatFts, drafts, now, nOps, nonChatVars>>

\* changeChat(null): saveDraft, then no conversation is open
ChangeChatNull ==
    /\ CanCall
    /\ currentChat # 0
    /\ chatList' = saveDraft(chatList, currentChat, drafts, now)
    /\ currentChat' = 0
    /\ nOps' = nOps + 1
    /\ last' = [NoLast EXCEPT !.act = "changeChatNull", !.chat = currentChat,
                              !.pre = Entry(chatList, currentChat), !.cur = currentChat]
    /\ UNCHANGED <<loading, db, chatFts, tasks, drafts, now, ops, nonChatVars>>

\* changeChatByTarget: the entry with this toId, if the list has one
TargetIndex(list, t) ==
    IF \E i \in 1..Len(list) : list[i].toId = t
    THEN CHOOSE i \in 1..Len(list) :
            list[i].toId = t /\ \A j \in 1..(i - 1) : list[j].toId # t
    ELSE 0

\* changeChatByTarget on a conversation of the list: updateRead(chat, 0), whose
\* body has no await, and the chat becomes the open one
ChangeChatByTargetExisting(t) ==
    /\ CanCall
    /\ TargetIndex(chatList, t) # 0
    /\ LET c == chatList[TargetIndex(chatList, t)].chatId
       IN  /\ chatList' = updateRead(chatList, c, 0)
           /\ tasks' = updateReadTask(tasks, chatList, c, 0)
           /\ currentChat' = c
           /\ last' = [NoLast EXCEPT !.act = "changeChatByTarget", !.chat = c,
                                     !.pre = Entry(chatList, c), !.cur = currentChat]
    /\ nOps' = nOps + 1
    /\ UNCHANGED <<loading, db, chatFts, drafts, now, ops, nonChatVars>>

\* changeChatByTarget on an unknown target: suspends on api.CreateChat
ChangeChatByTargetNew(t) ==
    /\ CanStart
    /\ TargetIndex(chatList, t) = 0
    /\ loading' = TRUE
    /\ ops' = Started([FreeOp EXCEPT !.kind = "changeChatByTarget", !.pc = "cbt_create",
                                     !.chat = t])
    /\ nOps' = nOps + 1
    /\ last' = NoLast
    /\ UNCHANGED <<chatList, currentChat, db, chatFts, tasks, drafts, now, nonChatVars>>

\* api.CreateChat answers (NoChat: it failed)
ChangeChatByTargetResume(p) ==
    /\ At(p, "changeChatByTarget", "cbt_create")
    /\ \E res \in ServerChats(ops[p].chat) \cup {NoChat} :
        LET blank == updateWithMsg(res, NoMsg, FALSE, currentChat, now)
        IN  IF res # NoChat
            THEN /\ chatList' = sortList(upsert(chatList, blank))
                 /\ tasks' = persist(tasks, blank, NoMsg)
                 /\ currentChat' = res.chatId
                 /\ last' = [NoLast EXCEPT !.act = "createChat", !.chat = res.chatId,
                                           !.pre = Entry(chatList, res.chatId),
                                           !.cur = currentChat]
            ELSE /\ last' = NoLast
                 /\ UNCHANGED <<chatList, tasks, currentChat>>
    /\ loading' = FALSE
    /\ ops' = Finished(p)
    /\ UNCHANGED <<db, chatFts, drafts, now, nOps, nonChatVars>>

\* ------------------------------------------------------ pin, mute, delete
\* chatsMapper.updateById: patches the row if there is one
UpdateById(table, chatId, field, value) ==
    IF table[chatId] = NoChat THEN table
    ELSE [table EXCEPT ![chatId] = [@ EXCEPT ![field] = value]]

\* togglePin / toggleMute up to the await: the entry's flag flips in memory
Toggle(c, kind, field) ==
    /\ CanStart
    /\ InList(chatList, c)
    /\ LET idx == findChatIndex(chatList, c)
           flipped == IF chatList[idx][field] = 1 THEN 0 ELSE 1
       IN  /\ chatList' = [chatList EXCEPT ![idx] = [@ EXCEPT ![field] = flipped]]
           /\ ops' = Started([FreeOp EXCEPT !.kind = kind, !.pc = "db_update", !.chat = c,
                                            !.row = [NoChat EXCEPT ![field] = flipped]])
    /\ nOps' = nOps + 1
    /\ last' = NoLast
    /\ UNCHANGED <<currentChat, loading, db, chatFts, tasks, drafts, now, nonChatVars>>

\* the store has written the flag; the operation resumes and sorts the list
ToggleResume(p, kind, field) ==
    /\ At(p, kind, "db_update")
    /\ db' = UpdateById(db, ops[p].chat, field, ops[p].row[field])
    /\ chatList' = sortList(chatList)
    /\ ops' = Finished(p)
    /\ last' = [NoLast EXCEPT !.act = kind, !.chat = ops[p].chat,
                              !.pre = Entry(chatList, ops[p].chat), !.cur = currentChat]
    /\ UNCHANGED <<currentChat, loading, chatFts, tasks, drafts, now, nOps, nonChatVars>>

\* chatsMapper.updateById rejects: the await throws, nothing catches it, the
\* operation ends by throwing to its caller before sortList
ToggleFail(p, kind, field, act) ==
    /\ At(p, kind, "db_update")
    /\ ops' = Finished(p)
    /\ last' = [NoLast EXCEPT !.act = act, !.chat = ops[p].chat,
                              !.pre = Entry(chatList, ops[p].chat), !.cur = currentChat,
                              !.base = ops[p].row, !.threw = TRUE]
    /\ UNCHANGED <<chatList, currentChat, loading, db, chatFts, tasks, drafts, now, nOps,
                   nonChatVars>>

TogglePin(c) == Toggle(c, "togglePin", "isTop")
TogglePinResume(p) == ToggleResume(p, "togglePin", "isTop")
ToggleMute(c) == Toggle(c, "toggleMute", "isMute")
ToggleMuteResume(p) == ToggleResume(p, "toggleMute", "isMute")
TogglePinFail(p) == ToggleFail(p, "togglePin", "isTop", "togglePinFailed")
ToggleMuteFail(p) == ToggleFail(p, "toggleMute", "isMute", "toggleMuteFailed")

RemoveAt(list, idx) == SubSeq(list, 1, idx - 1) \o SubSeq(list, idx + 1, Len(list))

\* deleteChat: no await; the row is deleted by an idle task
DeleteChat(c) ==
    /\ CanCall
    /\ InList(chatList, c)
    /\ LET idx == findChatIndex(chatList, c)
       IN  /\ chatList' = RemoveAt(chatList, idx)
           /\ ops' = Detach(ops, chatList[idx])
    /\ tasks' = Append(tasks, DeleteTask(c))
    /\ currentChat' = IF currentChat = c THEN 0 ELSE currentChat
    /\ drafts' = drafts \ {c}
    /\ nOps' = nOps + 1
    /\ last' = [NoLast EXCEPT !.act = "deleteChat", !.chat = c,
                              !.pre = Entry(chatList, c), !.cur = currentChat]
    /\ UNCHANGED <<loading, db, chatFts, now, nonChatVars>>

\* ------------------------------------------------------ drafts, time, tasks
\* the editor stores (html not blank) or removes (blank) the draft of the
\* open conversation
SetDraft(blank) ==
    /\ currentChat # 0
    /\ (currentChat \in drafts) = blank
    /\ drafts' = IF blank THEN drafts \ {currentChat} ELSE drafts \cup {currentChat}
    /\ last' = NoLast
    /\ UNCHANGED <<chatList, currentChat, loading, db, chatFts, tasks, now, ops, nOps,
                   nonChatVars>>

Tick ==
    /\ now < MaxNow
    /\ now' = now + 1
    /\ last' = NoLast
    /\ UNCHANGED <<chatList, currentChat, loading, db, chatFts, tasks, drafts, ops, nOps,
                   nonChatVars>>

\* what one idle task does to the chats table and its shadow table
ApplyTask(table, task) ==
    IF task.type = "insertOrUpdate" THEN [table EXCEPT ![task.chatId] = task.row]
    ELSE IF task.type = "updateById"
         THEN UpdateById(table, task.chatId, "unread", task.row.unread)
         ELSE [table EXCEPT ![task.chatId] = NoChat]

ApplyTaskFts(fts, task) ==
    IF task.type = "insertOrUpdate" THEN fts \cup {task.chatId}
    ELSE IF task.type = "deleteById" THEN fts \ {task.chatId}
         ELSE fts

\* an idle slot runs the oldest task
RunTask ==
    /\ tasks # <<>>
    /\ db' = ApplyTask(db, Head(tasks))
    /\ chatFts' = ApplyTaskFts(chatFts, Head(tasks))
    /\ tasks' = Tail(tasks)
    /\ last' = NoLast
    /\ UNCHANGED <<chatList, currentChat, loading, drafts, now, ops, nOps, nonChatVars>>

\* ------------------------------------------------------------ group store
GroupMemberRole_OWNER == 0
GroupMemberRole_ADMIN == 1
GroupMemberRole_MEMBER == 2
GroupMuteStatus_MUTED == 0
GroupMuteStatus_NORMAL == 1

JOIN_GROUP == 402
LEAVE_GROUP == 403
KICK_FROM_GROUP == 404
PROMOTE_TO_ADMIN == 405
DEMOTE_FROM_ADMIN == 406
TRANSFER_GROUP_OWNER == 407
SET_GROUP_INFO == 408
SET_GROUP_ANNOUNCEMENT == 409
SET_GROUP_JOIN_MODE == 410
MUTE_MEMBER == 415
UNMUTE_MEMBER == 416
MUTE_ALL == 417
UNMUTE_ALL == 418
SET_MEMBER_ROLE == 419
REMOVE_GROUP == 420

\* the keys of the handler table of applyGroupOperation
HandledTypes ==
    {KICK_FROM_GROUP, PROMOTE_TO_ADMIN, DEMOTE_FROM_ADMIN, TRANSFER_GROUP_OWNER,
     MUTE_MEMBER, UNMUTE_MEMBER, MUTE_ALL, UNMUTE_ALL, SET_MEMBER_ROLE, SET_GROUP_INFO,
     SET_GROUP_ANNOUNCEMENT, SET_GROUP_JOIN_MODE, REMOVE_GROUP, JOIN_GROUP, LEAVE_GROUP}

\* operation types the server may add later: no entry in the handler table
UnhandledTypes == {400, 499}

GroupUsers == {OwnerId, "u2"}
GroupIds == {"g1", "g2"}
Roles == {GroupMemberRole_OWNER, GroupMemberRole_ADMIN, GroupMemberRole_MEMBER}

\* a key the members map does not hold (role -1), and a member as the server sends it
NoMember == [role |-> -1, mute |-> GroupMuteStatus_NORMAL, muteEndTime |-> 0]
Member(role) == [role |-> role, mute |-> GroupMuteStatus_NORMAL, muteEndTime |-> 0]
NoMembers == [u \in GroupUsers |-> NoMember]

\* state.info = null, and the group info as the server sends it
NoInfo ==
    [groupId |-> "", groupName |-> "", avatar |-> "", notification |-> "",
     muteAll |-> GroupMuteStatus_NORMAL, applyJoinType |-> 0]
ServerInfo(g) ==
    [groupId |-> g, groupName |-> "name0", avatar |-> "avatar0", notification |-> "",
     muteAll |-> GroupMuteStatus_NORMAL, applyJoinType |-> 0]

Owners(ms) == {u \in GroupUsers : ms[u].role = GroupMemberRole_OWNER}

\* member maps the server returns: exactly one owner
ServerMembers ==
    {ms \in [GroupUsers -> {NoMember} \cup {Member(r) : r \in Roles}] :
        Cardinality(Owners(ms)) = 1}

\* a GroupOperationMessageBody; "" is an absent string, arg -1 an absent extra
Op(type, g, operator, target, arg, name, avatar, text) ==
    [operationType |-> type, groupId |-> g, operatorId |-> operator,
     targetUserId |-> target, arg |-> arg, groupName |-> name,
     groupAvatar |-> avatar, text |-> text]

NoOp == Op(0, "", "", "", -1, "", "", "")

MaybeUsers == GroupUsers \cup {""}

GroupOps ==
    {Op(t, "g1", "", u, -1, "", "", "") :
        t \in {KICK_FROM_GROUP, LEAVE_GROUP, PROMOTE_TO_ADMIN, DEMOTE_FROM_ADMIN,
               UNMUTE_MEMBER},
        u \in MaybeUsers}
    \cup {Op(MUTE_MEMBER, "g1", "", u, d, "", "", "") : u \in MaybeUsers, d \in {-1, 1}}
    \cup {Op(SET_MEMBER_ROLE, "g1", "", u, r, "", "", "") :
            u \in MaybeUsers, r \in {-1, GroupMemberRole_ADMIN}}
    \cup {Op(TRANSFER_GROUP_OWNER, "g1", o, u, -1, "", "", "") :
            o \in MaybeUsers, u \in MaybeUsers}
    \cup {Op(t, g, "", "", -1, "", "", "") :
            t \in {MUTE_ALL, UNMUTE_ALL, REMOVE_GROUP, JOIN_GROUP} \cup UnhandledTypes,
            g \in GroupIds}
    \cup {Op(SET_GROUP_INFO, g, "", "", -1, n, a, "") :
            g \in GroupIds, n \in {"", "name1"}, a \in {"", "avatar1"}}
    \cup {Op(SET_GROUP_ANNOUNCEMENT, g, "", "", -1, "", "", x) :
            g \in GroupIds, x \in {"", "notice1"}}
    \cup {Op(SET_GROUP_JOIN_MODE, g, "", "", m, "", "", "") : g \in GroupIds, m \in {-1, 1}}
    \cup {Op(KICK_FROM_GROUP, "", "", OwnerId, -1, "", "", "")}

\* o.targetUserId && state.members[o.targetUserId]
HasMember(ms, u) == u # "" /\ ms[u] # NoMember

SetRole(ms, u, role) == IF HasMember(ms, u) THEN [ms EXCEPT ![u].role = role] ELSE ms

RemoveMember(ms, u) == IF HasMember(ms, u) THEN [ms EXCEPT ![u] = NoMember] ELSE ms

\* the TRANSFER_GROUP_OWNER handler
TransferGroupOwner(ms, o) ==
    SetRole(SetRole(ms, o.operatorId, GroupMemberRole_MEMBER),
            o.targetUserId, GroupMemberRole_OWNER)

\* the MUTE_MEMBER handler at time t
MuteMember(ms, o, t) ==
    IF HasMember(ms, o.targetUserId)
    THEN [ms EXCEPT ![o.targetUserId].mute = GroupMuteStatus_MUTED,
                    ![o.targetUserId].muteEndTime = IF o.arg > 0 THEN t + o.arg ELSE 0]
    ELSE ms

UnmuteMember(ms, o) ==
    IF HasMember(ms, o.targetUserId)
    THEN [ms EXCEPT ![o.targetUserId].mute = GroupMuteStatus_NORMAL,
                    ![o.targetUserId].muteEndTime = 0]
    ELSE ms

\* state.info && state.info.groupId === o.groupId
IsInfoOf(info, o) == info # NoInfo /\ info.groupId = o.groupId

\* the handlers of applyGroupOperation that write state.members
MembersAfter(ms, o, t) ==
    CASE o.operationType \in {KICK_FROM_GROUP, LEAVE_GROUP} -> RemoveMember(ms, o.targetUserId)
      [] o.operationType = PROMOTE_TO_ADMIN -> SetRole(ms, o.targetUserId, GroupMemberRole_ADMIN)
      [] o.operationType = DEMOTE_FROM_ADMIN -> SetRole(ms, o.targetUserId, GroupMemberRole_MEMBER)
      [] o.operationType = TRANSFER_GROUP_OWNER -> TransferGroupOwner(ms, o)
      [] o.operationType = MUTE_MEMBER -> MuteMember(ms, o, t)
      [] o.operationType = UNMUTE_MEMBER -> UnmuteMember(ms, o)
      [] o.operationType = SET_MEMBER_ROLE ->
            SetRole(ms, o.targetUserId, IF o.arg = -1 THEN GroupMemberRole_MEMBER ELSE o.arg)
      [] OTHER -> ms

\* the handlers of applyGroupOperation that write state.info
InfoAfter(info, o) ==
    IF ~IsInfoOf(info, o) THEN info
    ELSE CASE o.operationType = MUTE_ALL -> [info EXCEPT !.muteAll = GroupMuteStatus_MUTED]
           [] o.operationType = UNMUTE_ALL -> [info EXCEPT !.muteAll = GroupMuteStatus_NORMAL]
           [] o.operationType = SET_GROUP_INFO ->
                [info EXCEPT !.groupName = IF o.groupName # "" THEN o.groupName ELSE @,
                             !.avatar = IF o.groupAvatar # "" THEN o.groupAvatar ELSE @]
           [] o.operationType = SET_GROUP_ANNOUNCEMENT ->
                [info EXCEPT !.notification = IF o.text # "" THEN o.text ELSE @]
           [] o.operationType = SET_GROUP_JOIN_MODE ->
                [info EXCEPT !.applyJoinType = IF o.arg = -1 THEN @ ELSE o.arg]
           [] OTHER -> info

\* applyGroupOperation with an unknown operation type handled as REMOVE_GROUP
applyGroupOperation_UnknownRemoves(g, o, t) ==
    IF o.groupId = "" THEN g
    ELSE IF o.operationType \in UnhandledTypes \cup {REMOVE_GROUP}
    THEN [g EXCEPT !.members = NoMembers, !.info = NoInfo, !.currentGroupId = ""]
    ELSE IF o.operationType = JOIN_GROUP
    THEN [g EXCEPT !.loading = TRUE, !.currentGroupId = o.groupId]
    ELSE [g EXCEPT !.members = MembersAfter(g.members, o, t), !.info = InfoAfter(g.info, o)]

\* applyGroupOperation: the group state after the event, applied at time t
\* (JOIN_GROUP: the part of loadMembers before its await)
applyGroupOperation(g, o, t) ==
    IF o.groupId = "" THEN g
    ELSE IF o.operationType \notin HandledTypes THEN g
    ELSE IF o.operationType = REMOVE_GROUP
    THEN IF IsInfoOf(g.info, o)
         THEN [g EXCEPT !.members = NoMembers, !.info = NoInfo, !.currentGroupId = ""]
         ELSE g
    ELSE IF o.operationType = JOIN_GROUP
    THEN [g EXCEPT !.loading = TRUE, !.currentGroupId = o.groupId]
    ELSE [g EXCEPT !.members = MembersAfter(g.members, o, t), !.info = InfoAfter(g.info, o)]

\* the role of the local user: getters.currentRole
currentRole(g) ==
    IF g.members[OwnerId] = NoMember THEN GroupMemberRole_MEMBER ELSE g.members[OwnerId].role

\* getters.isOwner
isOwner(g) == currentRole(g) = GroupMemberRole_OWNER

\* getters.hasAdminPermission with every role permitted
hasAdminPermission_Always(g) == TRUE

\* getters.hasAdminPermission
hasAdminPermission(g) ==
    currentRole(g) = GroupMemberRole_OWNER \/ currentRole(g) = GroupMemberRole_ADMIN

NoGroup ==
    [members |-> NoMembers, info |-> NoInfo, currentGroupId |-> "", loading |-> FALSE,
     error |-> "none"]

\* call: the guarded action called, ok: whether its server call succeeded,
\* ret: what it returned ("none" while it awaits the server), at: Date.now()
\* when isMuted was called
NoGroupLast ==
    [act |-> "none", op |-> NoOp, before |-> NoGroup, call |-> "", ok |-> FALSE,
     ret |-> "none", at |-> 0]

CanApply == nGroupOps < MaxGroupOps
CanCallGroup == nGroupCalls < MaxGroupCalls

\* a GROUP_OPERATION envelope reaches applyGroupOperation
ApplyGroupOperation(o) ==
    /\ CanApply
    /\ group' = applyGroupOperation(group, o, now)
    /\ gPending' = IF o.groupId # "" /\ o.operationType = JOIN_GROUP
                   THEN gPending \cup {[kind |-> "loadMembers", arg |-> o.groupId]}
                   ELSE gPending
    /\ nGroupOps' = nGroupOps + 1
    /\ gLast' = [NoGroupLast EXCEPT !.act = "applyGroupOperation", !.op = o, !.before = group]
    /\ UNCHANGED <<nGroupCalls, nonGroupVars>>

\* loadMembers up to its await
LoadMembers(g) ==
    /\ CanCallGroup
    /\ group' = [group EXCEPT !.loading = TRUE, !.currentGroupId = g]
    /\ gPending' = gPending \cup {[kind |-> "loadMembers", arg |-> g]}
    /\ nGroupCalls' = nGroupCalls + 1
    /\ gLast' = NoGroupLast
    /\ UNCHANGED <<nGroupOps, nonGroupVars>>

\* loadMembers after its await: the fetched map replaces members, or the
\* request failed and members stay
LoadMembersResume(g) ==
    /\ [kind |-> "loadMembers", arg |-> g] \in gPending
    /\ \E res \in ServerMembers \cup {NoMembers} :
        /\ group' = [group EXCEPT !.members = IF res = NoMembers THEN @ ELSE res,
                                  !.loading = FALSE]
        /\ gLast' = IF res = NoMembers THEN NoGroupLast
                    ELSE [NoGroupLast EXCEPT !.act = "loadMembers",
                                             !.op = [NoOp EXCEPT !.groupId = g]]
    /\ gPending' = gPending \ {[kind |-> "loadMembers", arg |-> g]}
    /\ UNCHANGED <<nGroupOps, nGroupCalls, nonGroupVars>>

\* loadGroupInfo up to its await
LoadGroupInfo(g) ==
    /\ CanCallGroup
    /\ group' = [group EXCEPT !.loading = TRUE]
    /\ gPending' = gPending \cup {[kind |-> "loadGroupInfo", arg |-> g]}
    /\ nGroupCalls' = nGroupCalls + 1
    /\ gLast' = NoGroupLast
    /\ UNCHANGED <<nGroupOps, nonGroupVars>>

LoadGroupInfoResume(g) ==
    /\ [kind |-> "loadGroupInfo", arg |-> g] \in gPending
    /\ \E ok \in BOOLEAN :
         group' = [group EXCEPT !.info = IF ok THEN ServerInfo(g) ELSE @, !.loading = FALSE]
    /\ gPending' = gPending \ {[kind |-> "loadGroupInfo", arg |-> g]}
    /\ gLast' = NoGroupLast
    /\ UNCHANGED <<nGroupOps, nGroupCalls, nonGroupVars>>

\* transferOwner up to its await: refused unless the local user is the owner
TransferOwner(u) ==
    /\ CanCallGroup
    /\ IF isOwner(group)
       THEN /\ gPending' = gPending \cup {[kind |-> "transferOwner", arg |-> u]}
            /\ group' = group
            /\ gLast' = [NoGroupLast EXCEPT !.act = "call", !.call = "transferOwner"]
       ELSE /\ gPending' = gPending
            /\ group' = [group EXCEPT !.error = "notOwner"]
            /\ gLast' = [NoGroupLast EXCEPT !.act = "call", !.call = "transferOwner",
                                            !.ret = "false"]
    /\ nGroupCalls' = nGroupCalls + 1
    /\ UNCHANGED <<nGroupOps, nonGroupVars>>

\* transferOwner after its await
TransferOwnerResume(u) ==
    /\ [kind |-> "transferOwner", arg |-> u] \in gPending
    /\ \E ok \in BOOLEAN :
         /\ group' = IF ok
                      THEN [group EXCEPT !.members =
                              SetRole(SetRole(@, OwnerId, GroupMemberRole_MEMBER),
                                      u, GroupMemberRole_OWNER)]
                      ELSE group
         /\ gLast' = [NoGroupLast EXCEPT !.act = "resume", !.call = "transferOwner",
                                         !.before = group, !.ok = ok,
                                         !.ret = IF ok THEN "true" ELSE "false"]
    /\ gPending' = gPending \ {[kind |-> "transferOwner", arg |-> u]}
    /\ UNCHANGED <<nGroupOps, nGroupCalls, nonGroupVars>>

\* the actions guarded by hasAdminPermission, by isOwner, and by not isOwner
AdminCalls == {"kickMember", "muteMember", "setJoinMode", "setMuteAll", "setAnnouncement"}
OwnerCalls == {"setAdmin", "dismissGroup"}
GuardedCalls == AdminCalls \cup OwnerCalls \cup {"quitGroup"}

\* the guard at the head of action k
Permitted(k, g) ==
    CASE k \in AdminCalls -> hasAdminPermission(g)
      [] k \in OwnerCalls -> isOwner(g)
      [] OTHER -> ~isOwner(g)

\* state.error after the guard of action k has failed
Refusal(k) ==
    CASE k \in AdminCalls -> "noPermission"
      [] k \in OwnerCalls -> "notOwner"
      [] OTHER -> "ownerCannotQuit"

\* the targets action k is called with ("": the action has no target user)
Targets(k) ==
    IF k \in {"kickMember", "muteMember", "setAdmin"} THEN GroupUsers ELSE {""}

\* the local update of action k once its server call has succeeded
\* (muteMember: mute MUTED without a duration, setAdmin: role ADMIN,
\* setJoinMode 1, setMuteAll MUTED, setAnnouncement "notice1")
GroupAfter(g, k, u) ==
    CASE k = "kickMember" -> [g EXCEPT !.members = RemoveMember(@, u)]
      [] k = "setAdmin" -> [g EXCEPT !.members = SetRole(@, u, GroupMemberRole_ADMIN)]
      [] k = "muteMember" ->
            IF HasMember(g.members, u)
            THEN [g EXCEPT !.members[u].mute = GroupMuteStatus_MUTED,
                           !.members[u].muteEndTime = 0]
            ELSE g
      [] k = "setJoinMode" -> IF g.info = NoInfo THEN g ELSE [g EXCEPT !.info.applyJoinType = 1]
      [] k = "setMuteAll" ->
            IF g.info = NoInfo THEN g ELSE [g EXCEPT !.info.muteAll = GroupMuteStatus_MUTED]
      [] k = "setAnnouncement" ->
            IF g.info = NoInfo THEN g ELSE [g EXCEPT !.info.notification = "notice1"]
      [] OTHER -> [g EXCEPT !.members = NoMembers, !.info = NoInfo, !.currentGroupId = ""]

\* a guarded action up to its await: refused when its guard fails
GuardedCall(k, u) ==
    /\ Cardinality({q \in gPending : q.kind \in GuardedCalls}) < MaxGuarded
    /\ IF Permitted(k, group)
       THEN /\ gPending' = gPending \cup {[kind |-> k, arg |-> u]}
            /\ group' = group
            /\ gLast' = [NoGroupLast EXCEPT !.act = "call", !.call = k]
       ELSE /\ gPending' = gPending
            /\ group' = [group EXCEPT !.error = Refusal(k)]
            /\ gLast' = [NoGroupLast EXCEPT !.act = "call", !.call = k, !.ret = "false"]
    /\ UNCHANGED <<nGroupOps, nGroupCalls, nonGroupVars>>

\* a guarded action after its await: exec returned the server's answer, or
\* undefined when the call failed
GuardedResume(k, u) ==
    /\ [kind |-> k, arg |-> u] \in gPending
    /\ \E ok \in BOOLEAN :
         /\ group' = IF ok THEN GroupAfter(group, k, u) ELSE group
         /\ gLast' = [NoGroupLast EXCEPT !.act = "resume", !.call = k, !.before = group,
                                         !.ok = ok, !.ret = IF ok THEN "true" ELSE "false"]
    /\ gPending' = gPending \ {[kind |-> k, arg |-> u]}
    /\ UNCHANGED <<nGroupOps, nGroupCalls, nonGroupVars>>

\* isAdminOrOwner with admins left out
isAdminOrOwner_OwnerOnly(g, u) ==
    g.members[u] # NoMember /\ g.members[u].role = GroupMemberRole_OWNER

\* isAdminOrOwner(userId)
isAdminOrOwner(g, u) ==
    /\ g.members[u] # NoMember
    /\ g.members[u].role = GroupMemberRole_OWNER \/ g.members[u].role = GroupMemberRole_ADMIN

\* the individual mute of u has an end time and it has passed at time t
MuteExpired(g, u, t) ==
    g.members[u].muteEndTime # 0 /\ g.members[u].muteEndTime < t

\* isMuted(userId) at time t: the value it returns
isMuted(g, u, t) ==
    IF g.members[u] = NoMember THEN FALSE
    ELSE IF g.info.muteAll = GroupMuteStatus_MUTED /\ ~isAdminOrOwner(g, u) THEN TRUE
    ELSE IF g.members[u].mute = GroupMuteStatus_MUTED THEN ~MuteExpired(g, u, t)
    ELSE FALSE

\* isMuted(userId) is called: an individual mute found expired is reset
IsMuted(u) ==
    /\ group' = IF /\ group.members[u] # NoMember
                   /\ ~(group.info.muteAll = GroupMuteStatus_MUTED /\ ~isAdminOrOwner(group, u))
                   /\ group.members[u].mute = GroupMuteStatus_MUTED
                   /\ MuteExpired(group, u, now)
                THEN [group EXCEPT !.members[u].mute = GroupMuteStatus_NORMAL]
                ELSE group
    /\ gLast' = [NoGroupLast EXCEPT !.act = "isMuted", !.op = [NoOp EXCEPT !.targetUserId = u],
                                    !.before = group, !.at = now,
                                    !.ret = IF isMuted(group, u, now) THEN "true" ELSE "false"]
    /\ UNCHANGED <<gPending, nGroupOps, nGroupCalls, nonGroupVars>>

\* Date.now() advances far enough for a timed mute to run out
MuteTick ==
    /\ now < MaxMuteNow
    /\ now' = now + 1
    /\ UNCHANGED <<chatList, currentChat, loading, db, chatFts, tasks, drafts, ops, nOps,
                   last, queueVars, groupVars, recallVars, restVars>>

\* the events that change who is muted
MuteOps ==
    {o \in GroupOps : o.operationType \in {MUTE_MEMBER, UNMUTE_MEMBER, MUTE_ALL, UNMUTE_ALL}}

\* reset
GroupReset ==
    /\ CanCallGroup
    /\ group' = NoGroup
    /\ nGroupCalls' = nGroupCalls + 1
    /\ gLast' = NoGroupLast
    /\ UNCHANGED <<gPending, nGroupOps, nonGroupVars>>

\* Date.now() advances between two group steps
GroupTick ==
    /\ now < MaxNow
    /\ now' = now + 1
    /\ UNCHANGED <<chatList, currentChat, loading, db, chatFts, tasks, drafts, ops, nOps,
                   last, queueVars, groupVars, recallVars, restVars>>

GroupInit ==
    /\ group = NoGroup
    /\ gPending = {}
    /\ nGroupOps = 0
    /\ nGroupCalls = 0
    /\ gLast = NoGroupLast

\* ------------------------------------------------- message list and recall
MessageContentType_TEXT == 1
MessageContentType_RECALL_MESSAGE == 453
MessageContentType_EDIT_MESSAGE == 451

MsgIds == {"m1", "m2", "m3"}

\* the conversation of a message: m1 and m2 belong to chat 1, m3 to chat 2
ChatOfMsg(m) == IF m = "m3" THEN 2 ELSE 1

\* the body of a text message, in the shape of a recall body
TextBody == [recalled |-> FALSE, operatorId |-> "", recallTime |-> 0, reason |-> "", name |-> ""]

NoRow == [messageContentType |-> 0, messageBody |-> TextBody]
TextRow == [messageContentType |-> MessageContentType_TEXT, messageBody |-> TextBody]

ListEntry(m, row) ==
    [messageId |-> m, messageContentType |-> row.messageContentType,
     messageBody |-> row.messageBody]

\* a recall directive (IMessageAction with a RecallMessageBody); messageId ""
\* and recallTime 0 are absent fields, chatType "none" an absent chatType
Directive(m, type, operator, time) ==
    [messageId |-> m, chatType |-> type, operatorId |-> operator, recallTime |-> time]

NoDirective == Directive("", "none", "", 0)

Directives ==
    {Directive(m, ChatTypeOf(ChatOfMsg(m)), "u2", t) : m \in MsgIds, t \in {0, 1}}
    \cup {Directive("m1", "none", OwnerId, 1)}
    \cup {Directive("", "SINGLE", OwnerId, 1)}

\* mapper(Number(messageBody.chatType ?? SINGLE_MESSAGE.code))
mapper(type) == IF type = "GROUP" THEN "GROUP" ELSE "SINGLE"

\* getUserNameByType: the name of the open conversation for a single chat, the
\* name of the operator among the loaded members (without the local user) for
\* a group
getUserNameByType(id, type, cur, ms) ==
    IF type = "SINGLE" THEN (IF cur = 0 THEN "" ELSE ToString(cur))
    ELSE IF id # OwnerId /\ id \in DOMAIN ms /\ ms[id] # NoMember THEN id
    ELSE ""

\* the tombstone handleRecall builds at time t with conversation cur open
recallBody(d, cur, ms, t) ==
    [recalled |-> TRUE, operatorId |-> d.operatorId,
     recallTime |-> IF d.recallTime # 0 THEN d.recallTime ELSE t,
     reason |-> "",
     name |-> getUserNameByType(d.operatorId, mapper(d.chatType), cur, ms)]

\* handleRecall on the visible list: the entry with that id is replaced in place
RecallInList(list, d, cur, ms, t) ==
    [i \in 1..Len(list) |->
        IF list[i].messageId = d.messageId
        THEN [list[i] EXCEPT !.messageBody = recallBody(d, cur, ms, t),
                             !.messageContentType = MessageContentType_RECALL_MESSAGE]
        ELSE list[i]]

\* the idle task handleRecall schedules
RecallTask(d, cur, ms, t) ==
    [type |-> "recall", id |-> d.messageId, table |-> mapper(d.chatType),
     row |-> [messageContentType |-> MessageContentType_RECALL_MESSAGE,
              messageBody |-> recallBody(d, cur, ms, t)]]

\* the idle task insertToDb schedules for a text message
InsertTask(m) ==
    [type |-> "insert", id |-> m, table |-> ChatTypeOf(ChatOfMsg(m)), row |-> TextRow]

\* whether the row of message id lives in the table of the task
InTable(task) == task.table = ChatTypeOf(ChatOfMsg(task.id))

\* what one idle task does to the message tables and their shadow tables
ApplyMsgTask(rows, task) ==
    IF task.type = "insert" THEN [rows EXCEPT ![task.id] = task.row]
    ELSE IF InTable(task) /\ rows[task.id] # NoRow THEN [rows EXCEPT ![task.id] = task.row]
    ELSE rows

ApplyMsgTaskFts(fts, task) ==
    IF task.type = "insert" THEN fts \cup {task.id}
    ELSE IF InTable(task) THEN fts \ {task.id}
    ELSE fts

\* findMessage: the stored messages of conversation c, oldest first
RECURSIVE StoredList(_, _, _)
StoredList(rows, c, ids) ==
    IF ids = <<>> THEN <<>>
    ELSE IF ChatOfMsg(Head(ids)) = c /\ rows[Head(ids)] # NoRow
    THEN <<ListEntry(Head(ids), rows[Head(ids)])>> \o StoredList(rows, c, Tail(ids))
    ELSE StoredList(rows, c, Tail(ids))

\* no getMessages call in flight
NoLoad == [pc |-> "none", chat |-> 0, rows |-> <<>>]

NoRecallLast ==
    [act |-> "none", d |-> NoDirective, before |-> <<>>,
     contentType |-> MessageContentType_RECALL_MESSAGE]

Received(m) ==
    \/ msgDb[m] # NoRow
    \/ \E i \in 1..Len(msgTasks) : msgTasks[i].type = "insert" /\ msgTasks[i].id = m

chatVarsButNowCur == <<chatList, loading, db, chatFts, tasks, drafts, ops, nOps, last>>

\* createMessage: an inbound text message is appended to the visible list when
\* its conversation is open, and its insert is scheduled
CreateMessage(m) ==
    /\ ~Received(m)
    /\ messageList' = IF ChatOfMsg(m) = currentChat
                      THEN Append(messageList, ListEntry(m, TextRow))
                      ELSE messageList
    /\ msgTasks' = Append(msgTasks, InsertTask(m))
    /\ rLast' = NoRecallLast
    /\ UNCHANGED <<msgLoad, msgDb, msgFts, nRecalls, now, currentChat, chatVarsButNowCur,
                   queueVars, groupVars, restVars>>

\* the user opens conversation c: the list is reset and loaded from the store
OpenChat(c) ==
    /\ c # currentChat
    /\ msgLoad = NoLoad
    /\ currentChat' = c
    /\ messageList' = StoredList(msgDb, c, <<"m1", "m2", "m3">>)
    /\ UNCHANGED <<msgLoad, msgDb, msgFts, msgTasks, nRecalls, rLast, now, chatVarsButNowCur,
                   queueVars, groupVars, restVars>>

\* the user opens the first conversation, c, and the history query is still to
\* be answered: the list is reset and getMessages(c) awaits findMessage
LoadCall(c) ==
    /\ currentChat = 0
    /\ msgLoad = NoLoad
    /\ currentChat' = c
    /\ messageList' = <<>>
    /\ msgLoad' = [pc |-> "query", chat |-> c, rows |-> <<>>]
    /\ UNCHANGED <<msgDb, msgFts, msgTasks, nRecalls, rLast, now, chatVarsButNowCur,
                   queueVars, groupVars, restVars>>

\* the store reads the rows of the query
LoadRead ==
    /\ msgLoad.pc = "query"
    /\ msgLoad' = [msgLoad EXCEPT !.pc = "answer",
                                  !.rows = StoredList(msgDb, msgLoad.chat, <<"m1", "m2", "m3">>)]
    /\ UNCHANGED <<messageList, msgDb, msgFts, msgTasks, nRecalls, rLast, now, currentChat,
                   chatVarsButNowCur, queueVars, groupVars, restVars>>

\* findMessage answers: the rows are put in front of the visible list
LoadResume ==
    /\ msgLoad.pc = "answer"
    /\ messageList' = msgLoad.rows \o messageList
    /\ msgLoad' = NoLoad
    /\ UNCHANGED <<msgDb, msgFts, msgTasks, nRecalls, rLast, now, currentChat,
                   chatVarsButNowCur, queueVars, groupVars, restVars>>

\* handleRecall
HandleRecall(d) ==
    /\ nRecalls < MaxRecalls
    /\ nRecalls' = nRecalls + 1
    /\ IF d.messageId = ""
       THEN UNCHANGED <<messageList, msgTasks>>
       ELSE /\ messageList' = RecallInList(messageList, d, currentChat, group.members, now)
            /\ msgTasks' = Append(msgTasks, RecallTask(d, currentChat, group.members, now))
    /\ rLast' = [act |-> "handleRecall", d |-> d, before |-> messageList,
                 contentType |-> MessageContentType_RECALL_MESSAGE]
    /\ UNCHANGED <<msgLoad, msgDb, msgFts, now, currentChat, chatVarsButNowCur, queueVars, groupVars, restVars>>

\* the operations a MESSAGE_OPERATION envelope carries besides a recall: an
\* edit of a message
EditDirectives == {Directive(m, ChatTypeOf(ChatOfMsg(m)), "u2", 1) : m \in MsgIds}

\* handleMessage on a MESSAGE_OPERATION envelope whose messageContentType is
\* ct: IMessageAction.fromPlain(data) goes to handleReCallMessage
HandleMessageOperation(d, ct) ==
    /\ nRecalls < MaxRecalls
    /\ nRecalls' = nRecalls + 1
    /\ messageList' = RecallInList(messageList, d, currentChat, group.members, now)
    /\ msgTasks' = Append(msgTasks, RecallTask(d, currentChat, group.members, now))
    /\ rLast' = [act |-> "messageOperation", d |-> d, before |-> messageList,
                 contentType |-> ct]
    /\ UNCHANGED <<msgLoad, msgDb, msgFts, now, currentChat, chatVarsButNowCur, queueVars, groupVars,
                   restVars>>

\* the idle executor runs the next message task
RunMsgTask ==
    /\ msgTasks # <<>>
    /\ msgDb' = ApplyMsgTask(msgDb, Head(msgTasks))
    /\ msgFts' = ApplyMsgTaskFts(msgFts, Head(msgTasks))
    /\ msgTasks' = Tail(msgTasks)
    /\ UNCHANGED <<msgLoad, messageList, nRecalls, rLast, now, currentChat, chatVarsButNowCur,
                   queueVars, groupVars, restVars>>

\* Date.now() advances
RecallTick ==
    /\ now < MaxNow
    /\ now' = now + 1
    /\ UNCHANGED <<msgLoad, messageList, msgDb, msgFts, msgTasks, nRecalls, rLast, currentChat,
                   chatVarsButNowCur, queueVars, groupVars, restVars>>

RecallInit ==
    /\ messageList = <<>>
    /\ msgDb = [m \in MsgIds |-> NoRow]
    /\ msgFts = {}
    /\ msgTasks = <<>>
    /\ nRecalls = 0
    /\ rLast = NoRecallLast
    /\ msgLoad = NoLoad


\* ------------------------------------------------------------ body codec
MessageContentType_TIP == 0
MessageContentType_IMAGE == 100
MessageContentType_VIDEO == 110
MessageContentType_AUDIO == 120
MessageContentType_FILE == 200

\* the content types sendMessage and uploadAndSend build bodies for, and the
\* system text
BodyTypes ==
    {MessageContentType_TIP, MessageContentType_TEXT, MessageContentType_IMAGE,
     MessageContentType_VIDEO, MessageContentType_AUDIO, MessageContentType_FILE}

\* property order of a body object, the order JSON.stringify emits them in
KeyOrder ==
    <<"text", "path", "name", "duration", "size", "suffix", "replyMessage",
      "mentionedUserIds", "mentionAll">>

\* a ReplyMessageInfo as the input box builds it
ReplyInfo == [messageId |-> "m1", fromId |-> "u2"]

\* value of a property other than the mention list
FieldValue(k) ==
    CASE k = "text" -> "hi"
      [] k = "path" -> "/local/a.mp4"
      [] k = "name" -> "a.mp4"
      [] k = "duration" -> 3
      [] k = "size" -> 10
      [] k = "suffix" -> "mp4"
      [] k = "replyMessage" -> ReplyInfo
      [] k = "mentionAll" -> TRUE

MentionLists == {<<"u2">>, <<"u2", "u3">>}

\* an object holding exactly the properties ks
BodyOf(ks, mentions) ==
    [k \in ks |-> IF k = "mentionedUserIds" THEN mentions ELSE FieldValue(k)]

NoBody == BodyOf({}, <<>>)

\* buildPayload: the content, plus replyMessage, mentionedUserIds and mentionAll
\* when the meta carries them
buildPayload(content, meta) == BodyOf(content \cup meta, <<"u2">>)

\* text bodies of sendMessage, with every mention list
TextBodies ==
    {BodyOf({"text"} \cup meta, ms) :
        meta \in SUBSET {"replyMessage", "mentionedUserIds", "mentionAll"},
        ms \in MentionLists}

\* media bodies of uploadAndSend: the upload result, size, suffix and the reply
MediaBodies ==
    {buildPayload({"path", "size", "suffix"} \cup up, meta) :
        up \in SUBSET {"name", "duration"}, meta \in SUBSET {"replyMessage"}}

BodiesOf(type) ==
    CASE type = MessageContentType_TIP -> {BodyOf({"text"}, <<>>)}
      [] type = MessageContentType_TEXT -> TextBodies
      [] OTHER -> MediaBodies

\* JSON.stringify of an object: its properties, in order, as key/value pairs
JSONstringify(obj) ==
    LET ks == SelectSeq(KeyOrder, LAMBDA k : k \in DOMAIN obj)
    IN  [i \in 1..Len(ks) |-> <<ks[i], obj[ks[i]]>>]

\* JSON.parse of such a text
JSONparse(text) ==
    [k \in {text[i][1] : i \in 1..Len(text)} |->
        text[CHOOSE i \in 1..Len(text) : text[i][1] = k][2]]

\* stringifyBody of a body object
stringifyBody(raw) == JSONstringify(raw)

\* this.k = init.k for every k of ks: a property the init lacks stays undefined
CopyFields(init, ks) == [k \in ks \cap DOMAIN init |-> init[k]]

TextMessageBody(init) ==
    [k \in (DOMAIN CopyFields(init, {"text", "replyMessage"}))
            \cup {"mentionedUserIds", "mentionAll"} |->
        CASE k = "mentionedUserIds" ->
                IF k \in DOMAIN init
                    THEN SelectSeq(init[k], LAMBDA v : v # "")
                    ELSE <<>>
          [] k = "mentionAll" -> k \in DOMAIN init /\ init[k]
          [] OTHER -> init[k]]

ImageMessageBody(init) == CopyFields(init, {"path", "name", "size", "replyMessage"})

VideoMessageBody(init) == CopyFields(init, {"path", "name", "duration", "size"})

AudioMessageBody(init) == CopyFields(init, {"path", "duration", "size"})

FileMessageBody(init) == CopyFields(init, {"path", "name", "suffix", "size"})

SystemMessageBody(init) == CopyFields(init, {"text"})

createMessageBody(raw, messageContentType) ==
    LET parsedRaw == JSONparse(raw)
    IN  CASE messageContentType = MessageContentType_TEXT -> TextMessageBody(parsedRaw)
          [] messageContentType = MessageContentType_IMAGE -> ImageMessageBody(parsedRaw)
          [] messageContentType = MessageContentType_VIDEO -> VideoMessageBody(parsedRaw)
          [] messageContentType = MessageContentType_AUDIO -> AudioMessageBody(parsedRaw)
          [] messageContentType = MessageContentType_FILE -> FileMessageBody(parsedRaw)
          [] messageContentType = MessageContentType_TIP -> SystemMessageBody(parsedRaw)

\* a body is built for sending
BuildBody(type, b) ==
    /\ codecStep \in {"idle", "decoded"}
    /\ body' = b
    /\ bodyType' = type
    /\ encoded' = <<>>
    /\ decoded' = NoBody
    /\ codecStep' = "body"
    /\ UNCHANGED nonCodecVars

StringifyBody ==
    /\ codecStep = "body"
    /\ encoded' = stringifyBody(body)
    /\ codecStep' = "encoded"
    /\ UNCHANGED <<body, bodyType, decoded, nonCodecVars>>

CreateMessageBody ==
    /\ codecStep = "encoded"
    /\ decoded' = createMessageBody(encoded, bodyType)
    /\ codecStep' = "decoded"
    /\ UNCHANGED <<body, bodyType, encoded, nonCodecVars>>

CodecInit ==
    /\ body = NoBody
    /\ bodyType = MessageContentType_TIP
    /\ encoded = <<>>
    /\ decoded = NoBody
    /\ codecStep = "idle"


\* ---------------------------------------------------------- draft manager
\* html strings, as sequences of characters
Htmls == {<<>>, <<" ">>, <<"a">>, <<" ", "a">>, <<"b">>}

\* String(chatId) of the ids a caller passes
DraftIds == {"", "1", "2"}

RECURSIVE TrimStart(_)
TrimStart(h) == IF h # <<>> /\ Head(h) = " " THEN TrimStart(Tail(h)) ELSE h

RECURSIVE TrimEnd(_)
TrimEnd(h) ==
    IF h # <<>> /\ h[Len(h)] = " " THEN TrimEnd(SubSeq(h, 1, Len(h) - 1)) ELSE h

\* String.prototype.trim
trim(h) == TrimEnd(TrimStart(h))

NoDrafts == [id \in {} |-> <<>>]

NoStore == [present |-> FALSE, text |-> <<>>]

\* JSON.stringify(draftMap): the entries, integer-like keys in ascending order
DraftStringify(map) ==
    LET ks == SelectSeq(<<"1", "2">>, LAMBDA k : k \in DOMAIN map)
    IN  [i \in 1..Len(ks) |-> <<ks[i], map[ks[i]]>>]

\* JSON.parse of the stored text
DraftParse(text) ==
    [k \in {text[i][1] : i \in 1..Len(text)} |->
        text[CHOOSE i \in 1..Len(text) : text[i][1] = k][2]]

\* init: the first call loads the stored map, if there is one
init(map, inited, store) ==
    IF ~inited /\ store.present /\ store.text # <<>> THEN DraftParse(store.text) ELSE map

\* get: draftMap[id] || undefined
get(map, id) ==
    IF id \in DOMAIN map /\ map[id] # <<>>
        THEN [defined |-> TRUE, value |-> map[id]]
        ELSE [defined |-> FALSE, value |-> <<>>]

\* has: !!draftMap[id]?.trim()
has(map, id) == id \in DOMAIN map /\ trim(map[id]) # <<>>

Without(map, id) == [k \in DOMAIN map \ {id} |-> map[k]]

With(map, id, html) == [k \in DOMAIN map \cup {id} |-> IF k = id THEN html ELSE map[k]]

set_KeepsBlank(map, id, html) == With(map, id, html)

\* set, after init and the check of the id
set(map, id, html) ==
    IF trim(html) # <<>> THEN With(map, id, html) ELSE Without(map, id)

\* clear, after init
clear(map, id) == Without(map, id)

\* persist: storage.set(DRAFT_STORAGE_KEY, JSON.stringify(draftMap))
persistDrafts(map) == [present |-> TRUE, text |-> DraftStringify(map)]

NoDraftLast == [act |-> "none", id |-> "", html |-> <<>>, had |-> FALSE]

\* draftManager.set(id, html): the four variables of the manager after the call
DraftManagerSet(id, html) ==
    LET map == init(draftMap, initialized, draftStore)
    IN  /\ initialized' = TRUE
        /\ dLast' = [act |-> "set", id |-> id, html |-> html, had |-> id \in DOMAIN map]
        /\ IF id = ""
              THEN /\ draftMap' = map
                   /\ UNCHANGED draftStore
              ELSE /\ draftMap' = set(map, id, html)
                   /\ draftStore' = persistDrafts(draftMap')

\* draftManager.clear(id)
DraftManagerClear(id) ==
    LET map == init(draftMap, initialized, draftStore)
    IN  /\ initialized' = TRUE
        /\ dLast' = [act |-> "clear", id |-> id, html |-> <<>>, had |-> id \in DOMAIN map]
        /\ draftMap' = clear(map, id)
        /\ draftStore' = persistDrafts(draftMap')

Set(id, html) ==
    /\ DraftManagerSet(id, html)
    /\ UNCHANGED nonDraftVars

Clear(id) ==
    /\ DraftManagerClear(id)
    /\ UNCHANGED nonDraftVars

DraftInit ==
    /\ draftMap = NoDrafts
    /\ initialized = FALSE
    /\ draftStore = NoStore
    /\ dLast = NoDraftLast


\* ------------------------------------------------------- input box drafts
\* what the user types while conversation c is open
TypedIn(c) == IF c = 1 THEN {<<"a">>, <<" ", "a">>} ELSE {<<"b">>}

NoTimer == [pending |-> FALSE, chatId |-> 0]

\* debounceWithCancel: a call replaces the pending timer by one holding its arguments
debounceWithCancel(chatId) == [pending |-> TRUE, chatId |-> chatId]

\* the state outside the input box, the draft manager and currentChat
nonEditorVars ==
    <<chatList, loading, db, chatFts, tasks, drafts, now, ops, nOps, last,
      queueVars, groupVars, recallVars, codecVars, streamVars, listVars, coreVars, userVars>>

\* restoreDraft: setContent(getDraft(chatId) ?? "")
restoreDraft(map, chatId) == get(map, ToString(chatId)).value

\* the conversation changes; the watcher of a mounted input box restores the
\* draft of the new conversation
SwitchChat(c) ==
    /\ c # currentChat
    /\ currentChat' = c
    /\ IF mounted
          THEN /\ draftMap' = init(draftMap, initialized, draftStore)
               /\ initialized' = TRUE
               /\ editorContent' = restoreDraft(draftMap', c)
          ELSE UNCHANGED <<draftMap, initialized, editorContent>>
    /\ UNCHANGED <<draftStore, dLast, saveTimer, sending, mounted, nonEditorVars>>

\* handleInteraction
handleInteraction ==
    IF currentChat # 0
        THEN saveTimer' = debounceWithCancel(currentChat)
        ELSE UNCHANGED saveTimer

\* input event: the content changes, then handleInteraction
Input(html) ==
    /\ mounted
    /\ currentChat # 0
    /\ editorContent' = html
    /\ handleInteraction
    /\ UNCHANGED <<currentChat, draftVars, sending, mounted, nonEditorVars>>

\* click event: handleInteraction
Click ==
    /\ mounted
    /\ currentChat # 0
    /\ handleInteraction
    /\ UNCHANGED <<currentChat, editorContent, draftVars, sending, mounted, nonEditorVars>>

\* the timer of saveDraftDebounced fires: setDraft(id, getContent())
SaveDraftDebounced ==
    /\ saveTimer.pending
    /\ saveTimer' = NoTimer
    /\ DraftManagerSet(ToString(saveTimer.chatId), IF mounted THEN editorContent ELSE <<>>)
    /\ UNCHANGED <<currentChat, editorContent, sending, mounted, nonEditorVars>>

\* handleSend up to await chatStore.handleSendMessage(parts)
HandleSend ==
    /\ mounted
    /\ ~sending
    /\ trim(editorContent) # <<>>
    /\ sending' = TRUE
    /\ UNCHANGED <<currentChat, editorContent, saveTimer, draftVars, mounted, nonEditorVars>>

\* handleSend after the await: clearContent, clearDraft of the open conversation
HandleSendResume ==
    /\ sending
    /\ sending' = FALSE
    /\ editorContent' = <<>>
    /\ IF currentChat # 0
          THEN DraftManagerClear(ToString(currentChat))
          ELSE UNCHANGED draftVars
    /\ UNCHANGED <<currentChat, saveTimer, mounted, nonEditorVars>>

\* onBeforeUnmount: cleanup(chatId) saves now and cancels the timer
Cleanup ==
    /\ mounted
    /\ ~sending
    /\ mounted' = FALSE
    /\ IF currentChat # 0
          THEN DraftManagerSet(ToString(currentChat), editorContent)
          ELSE UNCHANGED draftVars
    /\ saveTimer' = NoTimer
    /\ editorContent' = <<>>
    /\ UNCHANGED <<currentChat, sending, nonEditorVars>>

\* the input box is mounted: the immediate watcher restores the draft
Mount ==
    /\ ~mounted
    /\ mounted' = TRUE
    /\ draftMap' = init(draftMap, initialized, draftStore)
    /\ initialized' = TRUE
    /\ editorContent' = IF currentChat # 0 THEN restoreDraft(draftMap', currentChat) ELSE <<>>
    /\ UNCHANGED <<currentChat, draftStore, dLast, saveTimer, sending, nonEditorVars>>

EditorInit ==
    /\ editorContent = <<>>
    /\ saveTimer = NoTimer
    /\ sending = FALSE
    /\ mounted = TRUE


\* ------------------------------------- priority queue, continuing stream
Priorities == {"URGENT", "HIGH", "NORMAL", "LOW"}

\* rank of a lane in the strict priority order
Rank(p) ==
    CASE p = "URGENT" -> 0 [] p = "HIGH" -> 1 [] p = "NORMAL" -> 2 [] p = "LOW" -> 3

\* a queued item; id 0 is a push that is not followed
Item(id, p) == [id |-> id, priority |-> p, waited |-> 0]

NotPushed == [priority |-> "none", count |-> 0, waited |-> 0]

Depth(q) == Len(q["URGENT"]) + Len(q["HIGH"]) + Len(q["NORMAL"]) + Len(q["LOW"])

Min(a, b) == IF a < b THEN a ELSE b

\* items a drain cycle pulls from the lanes below URGENT
BatchSize_None(depth) == 0

BatchSize(depth) ==
    IF depth > backpressureThreshold THEN maxBatchSize ELSE initialBatchSize

\* URGENT items a drain cycle resolves: they bypass batching
TakeUrgent_Batched(lane, batch) == Min(Len(lane), batch)

TakeUrgent(lane, batch) == Len(lane)

\* the items a drain cycle resolves, in the order it resolves them
Taken(q) ==
    LET batch == BatchSize(Depth(q))
        rest == q["HIGH"] \o q["NORMAL"] \o q["LOW"]
    IN  SubSeq(q["URGENT"], 1, TakeUrgent(q["URGENT"], batch))
            \o SubSeq(rest, 1, Min(batch, Len(rest)))

\* number of items of lane p among the first n of seq
CountLane(seq, p) == Len(SelectSeq(seq, LAMBDA it : it.priority = p))

\* a lane after a cycle: the items not pulled carry over, one cycle older
CarryOver(lane, n) ==
    [i \in 1..(Len(lane) - n) |->
        [lane[i + n] EXCEPT !.waited = Min(@ + 1, MaxWait)]]

NoStreamLast == [act |-> "none", lowerBefore |-> 0, urgent |-> 0]

\* push(envelope, priority) of a followed envelope
Push(p) ==
    /\ sPushed < MaxTracked
    /\ Depth(sLanes) < MaxDepth
    /\ sLanes' = [sLanes EXCEPT ![p] = Append(@, Item(sPushed + 1, p))]
    /\ tracked' = [tracked EXCEPT ![sPushed + 1] = [NotPushed EXCEPT !.priority = p]]
    /\ sPushed' = sPushed + 1
    /\ sLast' = [NoStreamLast EXCEPT !.act = "push"]
    /\ UNCHANGED nonStreamVars

\* push of one more envelope of the stream
PushStream(p) ==
    /\ Depth(sLanes) < MaxDepth
    /\ sLanes' = [sLanes EXCEPT ![p] = Append(@, Item(0, p))]
    /\ sLast' = [NoStreamLast EXCEPT !.act = "push"]
    /\ UNCHANGED <<tracked, sPushed, nonStreamVars>>

\* one drain cycle: URGENT first, then the batch in strict priority order
DrainCycle ==
    /\ Depth(sLanes) > 0
    /\ LET taken == Taken(sLanes)
       IN  /\ sLanes' = [p \in Priorities |-> CarryOver(sLanes[p], CountLane(taken, p))]
           /\ tracked' =
                [i \in 1..MaxTracked |->
                    IF \E k \in 1..Len(taken) : taken[k].id = i
                        THEN [tracked[i] EXCEPT
                                !.count = @ + 1,
                                !.waited =
                                    taken[CHOOSE k \in 1..Len(taken) : taken[k].id = i].waited]
                        ELSE tracked[i]]
           /\ sLast' = [act |-> "drain",
                        lowerBefore |-> Len(sLanes["NORMAL"]) + Len(sLanes["LOW"]),
                        urgent |-> CountLane(taken, "URGENT")]
    /\ UNCHANGED <<sPushed, nonStreamVars>>

StreamInit ==
    /\ sLanes = [p \in Priorities |-> <<>>]
    /\ tracked = [i \in 1..MaxTracked |-> NotPushed]
    /\ sPushed = 0
    /\ sLast = NoStreamLast


\* ------------------------------------------- visible message list, paging
\* messages the tables hold for a conversation
StoredCount(c) == IF c = 1 THEN 5 ELSE 2

\* a message of the visible list: a stored one has its age (1 = newest), an
\* inbound one the number of its envelope
Msg(c, age, n) == [chat |-> c, age |-> age, n |-> n]

Max(a, b) == IF a > b THEN a ELSE b

\* mapper.findMessage(ownerId, toId, offset, size): the page of stored
\* messages that starts offset messages back from the newest, oldest first
findMessage(c, offset, size) ==
    [i \in 1..Max(0, Min(offset + size, StoredCount(c)) - offset) |->
        Msg(c, Min(offset + size, StoredCount(c)) - i + 1, 0)]

\* resetMessages: page.num 1, page.total 0
FirstPage == [num |-> 1, total |-> 0]

\* getMessages(chat) up to its first await, run as call n with conversation
\* cur open: it waits for getMessageCount when page.total is 0
getMessages(n, c, pg, cur) ==
    IF pg.total = 0 /\ cur # 0
        THEN [n |-> n, pc |-> "count", chat |-> c, counted |-> cur, offset |-> 0]
        ELSE [n |-> n, pc |-> "find", chat |-> c, counted |-> 0,
              offset |-> (pg.num - 1) * PageSize]

\* the state outside the message list view and currentChat
nonListVars ==
    <<chatList, loading, db, chatFts, tasks, drafts, now, ops, nOps, last,
      queueVars, groupVars, recallVars, codecVars, draftVars, editorVars, streamVars,
      coreVars, userVars>>

\* handleChooseChat(item) up to await mediaStore.initStorage: handleResetMessage
ChooseChat(c) ==
    /\ nFlows < MaxFlows
    /\ nChosen < MaxChosen
    /\ nFlows' = nFlows + 1
    /\ nChosen' = nChosen + 1
    /\ vList' = <<>>
    /\ page' = FirstPage
    /\ flows' = flows \cup {[n |-> nFlows + 1, pc |-> "initStorage", chat |-> c,
                             counted |-> 0, offset |-> 0]}
    /\ UNCHANGED <<currentChat, waiting, nInbound, notification, invoked, nonListVars>>

\* initStorage is done: changeChat(item) runs up to await selectById
ChooseChatChange(f) ==
    /\ f \in flows
    /\ f.pc = "initStorage"
    /\ flows' = (flows \ {f}) \cup {[f EXCEPT !.pc = "selectById"]}
    /\ invoked' = f.chat
    /\ UNCHANGED <<currentChat, vList, page, nFlows, nChosen, waiting, nInbound,
                   notification, nonListVars>>

\* selectById is done: resetMessages, currentChat = chat; a group chat waits
\* for loadMembers, a single chat goes on to getMessages(item)
ChooseChatOpen(f) ==
    /\ f \in flows
    /\ f.pc = "selectById"
    /\ vList' = <<>>
    /\ page' = FirstPage
    /\ currentChat' = f.chat
    /\ flows' = (flows \ {f}) \cup
                {IF ChatTypeOf(f.chat) = "GROUP"
                    THEN [f EXCEPT !.pc = "loadMembers"]
                    ELSE getMessages(f.n, f.chat, page', currentChat')}
    /\ UNCHANGED <<nFlows, nChosen, waiting, nInbound, notification, invoked, nonListVars>>

\* loadMembers is done: changeChat returns and getMessages(item) starts
ChooseChatMembers(f) ==
    /\ f \in flows
    /\ f.pc = "loadMembers"
    /\ flows' = (flows \ {f}) \cup {getMessages(f.n, f.chat, page, currentChat)}
    /\ UNCHANGED <<currentChat, vList, page, nFlows, nChosen, waiting, nInbound,
                   notification,
                   invoked, nonListVars>>

\* getMessageCount is done: page.total is set, the offset is computed from
\* page.num and findMessage is awaited
GetMessagesCount(f) ==
    /\ f \in flows
    /\ f.pc = "count"
    /\ page' = [page EXCEPT !.total = StoredCount(f.counted)]
    /\ flows' = (flows \ {f}) \cup
                {[f EXCEPT !.pc = "find", !.offset = (page.num - 1) * PageSize]}
    /\ UNCHANGED <<currentChat, vList, nFlows, nChosen, waiting, nInbound, notification, invoked, nonListVars>>

\* findMessage is done: the page is put in front of state.messageList
GetMessagesFind(f) ==
    /\ f \in flows
    /\ f.pc = "find"
    /\ vList' = findMessage(f.chat, f.offset, PageSize) \o vList
    /\ flows' = flows \ {f}
    /\ UNCHANGED <<currentChat, page, nFlows, nChosen, waiting, nInbound, notification, invoked, nonListVars>>

\* loadMore: page.num++, getMessages(currentChat)
LoadMore ==
    /\ currentChat # 0
    /\ nFlows < MaxFlows
    /\ page.num < MaxPage
    /\ nFlows' = nFlows + 1
    /\ page' = [page EXCEPT !.num = @ + 1]
    /\ flows' = flows \cup {getMessages(nFlows + 1, currentChat, page', currentChat)}
    /\ UNCHANGED <<currentChat, vList, nChosen, waiting, nInbound, notification, invoked, nonListVars>>

\* changeChat(null)
CloseChat ==
    /\ currentChat # 0
    /\ currentChat' = 0
    /\ invoked' = 0
    /\ UNCHANGED <<vList, page, flows, nFlows, nChosen, waiting, nInbound, notification,
                   nonListVars>>

\* createMessage on the visible list: appended when its conversation is open
createMessage(list, c, n, cur) ==
    IF c = cur THEN Append(list, Msg(c, 0, n)) ELSE list

\* the queue resolves a chat envelope of conversation c: handleChatMessage
\* runs up to await appIsMinimizedOrHidden(), or through when the setting is off
ResolveChatMessage(c) ==
    /\ nInbound < MaxInbound
    /\ nInbound' = nInbound + 1
    /\ IF notification
          THEN /\ waiting' = waiting \cup {[n |-> nInbound + 1, chat |-> c]}
               /\ UNCHANGED vList
          ELSE /\ vList' = createMessage(vList, c, nInbound + 1, currentChat)
               /\ UNCHANGED waiting
    /\ UNCHANGED <<currentChat, page, flows, nFlows, nChosen, notification, invoked, nonListVars>>

\* appIsMinimizedOrHidden has answered: createOrUpdate and createMessage run
ChatMessageResume(w) ==
    /\ w \in waiting
    /\ waiting' = waiting \ {w}
    /\ vList' = createMessage(vList, w.chat, w.n, currentChat)
    /\ UNCHANGED <<currentChat, page, flows, nFlows, nChosen, nInbound, notification, invoked, nonListVars>>

\* the user switches message notifications on or off
SetNotification ==
    /\ notification' = ~notification
    /\ UNCHANGED <<currentChat, vList, page, flows, nFlows, nChosen, waiting, nInbound, invoked, nonListVars>>

ListInit ==
    /\ vList = <<>>
    /\ page = FirstPage
    /\ flows = {}
    /\ nFlows = 0
    /\ nChosen = 0
    /\ waiting = {}
    /\ nInbound = 0
    /\ notification = TRUE
    /\ invoked = 0

\* ------------------------------------------------------ specification Spec
ChatInit ==
    /\ chatList = <<>>
    /\ currentChat = 0
    /\ loading = FALSE
    /\ db = [c \in Chats |-> NoChat]
    /\ chatFts = {}
    /\ tasks = <<>>
    /\ drafts = {}
    /\ now = 1
    /\ ops = [p \in Slots |-> FreeOp]
    /\ nOps = 0
    /\ last = NoLast

QueueInit ==
    /\ lanes = [l \in {"URGENT", "HIGH", "NORMAL", "LOW"} |-> <<>>]
    /\ nPushed = 0
    /\ resolved = <<>>
    /\ handled = <<>>
    /\ uncaught = {}

\* ------------------------------------------------- MainManager: initClient
\* the steps of the initialisation sequence after initLanguage
InitSteps == <<"user", "database", "chatStore", "webSocket", "listeners", "backgroundTasks">>

NoInitLast ==
    [act |-> "none", ret |-> "none", wasInitialized |-> FALSE, wasPromise |-> FALSE,
     wasPc |-> "none", wasRunning |-> 0]

\* what a call of initClient does, from the two guards at its head, with the
\* second guard left out
initClientReturn_NeverShares(isInit, promise) ==
    IF isInit THEN "returned" ELSE "started"

\* what a call of initClient does, from the two guards at its head
initClientReturn(isInit, promise) ==
    IF isInit THEN "returned" ELSE IF promise THEN "shared" ELSE "started"

\* initClient up to its first await: returns at once, returns the promise in
\* flight, or starts the sequence (initLanguage, which may throw, then initUser
\* is awaited)
InitClient ==
    /\ nInit < MaxInitCalls
    /\ nInit' = nInit + 1
    /\ LET r == initClientReturn(clientInitialized, initPromise)
       IN /\ iLast' = [act |-> "initClient", ret |-> r, wasInitialized |-> clientInitialized,
                       wasPromise |-> initPromise, wasPc |-> initPc, wasRunning |-> running]
          /\ IF r = "started"
             THEN /\ initPromise' = TRUE
                  /\ \E thrown \in BOOLEAN :
                       IF thrown
                       THEN /\ initPc' = "rejected"
                            /\ initLog' = <<>>
                            /\ clientInitialized' = FALSE
                            /\ running' = running
                       ELSE /\ initPc' = "user"
                            /\ initLog' = <<"user">>
                            /\ running' = running + 1
                            /\ UNCHANGED clientInitialized
             ELSE UNCHANGED <<clientInitialized, initPromise, initPc, initLog, running>>
    /\ UNCHANGED <<ws, nonCoreVars>>

\* the catch block: initialized = false, the promise rejects
InitFailed ==
    /\ clientInitialized' = FALSE
    /\ initPc' = "rejected"
    /\ running' = running - 1

\* the awaited step (initUser, initDatabase) settles: the next step is awaited,
\* or the sequence fails
InitAwaited(step, next) ==
    /\ initPc = step
    /\ \E ok \in BOOLEAN :
         IF ok
         THEN /\ initPc' = next
              /\ initLog' = Append(initLog, next)
              /\ UNCHANGED <<clientInitialized, running>>
         ELSE InitFailed /\ UNCHANGED initLog
    /\ iLast' = NoInitLast
    /\ UNCHANGED <<initPromise, ws, nInit, nonCoreVars>>

\* initChatStore settles: initWebSocket is started and not awaited, then
\* initEventListeners and initBackgroundTasks run; thrown is the first of the
\* two that throws ("" when neither does)
InitTail ==
    /\ initPc = "chatStore"
    /\ \E thrown \in {"", "chatStore", "listeners", "backgroundTasks"} :
         /\ initLog' = CASE thrown = "chatStore" -> initLog
                         [] thrown = "listeners" -> initLog \o <<"webSocket", "listeners">>
                         [] OTHER -> initLog \o <<"webSocket", "listeners", "backgroundTasks">>
         /\ ws' = IF thrown = "chatStore" THEN ws ELSE "pending"
         /\ IF thrown = ""
            THEN /\ clientInitialized' = TRUE
                 /\ initPc' = "resolved"
                 /\ running' = running - 1
            ELSE InitFailed
    /\ iLast' = NoInitLast
    /\ UNCHANGED <<initPromise, nInit, nonCoreVars>>

\* the finally callback of the promise: initPromise = null
InitFinally ==
    /\ initPc \in {"resolved", "rejected"}
    /\ initPromise' = FALSE
    /\ initPc' = "none"
    /\ iLast' = [NoInitLast EXCEPT !.act = "settled", !.ret = initPc]
    /\ UNCHANGED <<clientInitialized, initLog, running, ws, nInit, nonCoreVars>>

\* initWebSocket settles; its rejection is caught and logged
WebSocketSettles ==
    /\ ws = "pending"
    /\ \E ok \in BOOLEAN : ws' = IF ok THEN "up" ELSE "failed"
    /\ iLast' = [act |-> "webSocket", ret |-> ws', wasInitialized |-> clientInitialized,
                 wasPromise |-> initPromise, wasPc |-> initPc, wasRunning |-> running]
    /\ UNCHANGED <<clientInitialized, initPromise, initPc, initLog, running, nInit, nonCoreVars>>

\* destroy: disconnect, initialized = false (disconnect throwing leaves it)
Destroy ==
    /\ nInit < MaxInitCalls
    /\ nInit' = nInit + 1
    /\ \E thrown \in BOOLEAN :
         IF thrown THEN UNCHANGED <<clientInitialized, ws>>
         ELSE clientInitialized' = FALSE /\ ws' = "none"
    /\ iLast' = [NoInitLast EXCEPT !.act = "destroy"]
    /\ UNCHANGED <<initPromise, initPc, initLog, running, nonCoreVars>>

CoreInit ==
    /\ clientInitialized = FALSE
    /\ initPromise = FALSE
    /\ initPc = "none"
    /\ initLog = <<>>
    /\ running = 0
    /\ ws = "none"
    /\ nInit = 0
    /\ iLast = NoInitLast

\* ------------------------------------------------------ user store: login
LoginStatus_IDLE == "idle"
LoginStatus_LOGGING_IN == "logging_in"
LoginStatus_LOGGED_IN == "logged_in"
LoginStatus_LOGGING_OUT == "logging_out"

NoUserLast == [act |-> "none", force |-> FALSE]

\* isLoading
isLoading(st) == st \in {LoginStatus_LOGGING_IN, LoginStatus_LOGGING_OUT}

\* login up to await api.Login
Login ==
    /\ nUser < MaxUserCalls
    /\ loginPc = "none"
    /\ nUser' = nUser + 1
    /\ IF isLoading(status)
       THEN /\ uLast' = [NoUserLast EXCEPT !.act = "loginSkipped"]
            /\ UNCHANGED <<token, status, userId, loginPc>>
       ELSE /\ status' = LoginStatus_LOGGING_IN
            /\ token' = ""
            /\ userId' = ""
            /\ loginPc' = "api"
            /\ uLast' = [NoUserLast EXCEPT !.act = "login"]
    /\ UNCHANGED <<logoutPc, nonUserVars>>

\* the catch block of login: status = IDLE, the error is thrown on
LoginRejects ==
    /\ status' = LoginStatus_IDLE
    /\ loginPc' = "none"
    /\ uLast' = [NoUserLast EXCEPT !.act = "loginRejected"]

\* api.Login settles: a valid response puts the access token in memory and
\* tokenManager.set is awaited; an invalid response or a rejection fails the login
LoginApi ==
    /\ loginPc = "api"
    /\ \E res \in {"valid", "invalid", "rejected"} :
         IF res = "valid"
         THEN /\ token' = "t1"
              /\ userId' = "u1"
              /\ loginPc' = "store"
              /\ uLast' = NoUserLast
              /\ UNCHANGED status
         ELSE LoginRejects /\ UNCHANGED <<token, userId>>
    /\ UNCHANGED <<logoutPc, nUser, nonUserVars>>

\* Promise.all settles: status = LOGGED_IN and switchWindowToMain is awaited
LoginStored ==
    /\ loginPc = "store"
    /\ \E ok \in BOOLEAN :
         IF ok
         THEN /\ status' = LoginStatus_LOGGED_IN
              /\ loginPc' = "window"
              /\ uLast' = NoUserLast
         ELSE LoginRejects
    /\ UNCHANGED <<token, userId, logoutPc, nUser, nonUserVars>>

\* switchWindowToMain settles
LoginWindow ==
    /\ loginPc = "window"
    /\ \E ok \in BOOLEAN :
         IF ok
         THEN /\ loginPc' = "none"
              /\ uLast' = [NoUserLast EXCEPT !.act = "loginResolved"]
              /\ UNCHANGED status
         ELSE LoginRejects
    /\ UNCHANGED <<token, userId, logoutPc, nUser, nonUserVars>>

\* logout(options) up to await tokenManager.clear
Logout(force) ==
    /\ nUser < MaxUserCalls
    /\ logoutPc = "none"
    /\ nUser' = nUser + 1
    /\ IF status = LoginStatus_LOGGING_OUT
       THEN /\ uLast' = [NoUserLast EXCEPT !.act = "logoutSkipped", !.force = force]
            /\ UNCHANGED <<token, status, userId, logoutPc>>
       ELSE /\ status' = LoginStatus_LOGGING_OUT
            /\ token' = ""
            /\ userId' = ""
            /\ logoutPc' = "clear"
            /\ uLast' = [NoUserLast EXCEPT !.act = "logout", !.force = force]
    /\ UNCHANGED <<loginPc, nonUserVars>>

\* forceLogout(reason)
ForceLogout == Logout(TRUE)

\* tokenManager.clear settles: switchWindowToLogin is awaited, or the finally
\* block runs
LogoutCleared ==
    /\ logoutPc = "clear"
    /\ \E ok \in BOOLEAN :
         IF ok
         THEN logoutPc' = "window" /\ UNCHANGED status
         ELSE logoutPc' = "none" /\ status' = LoginStatus_IDLE
    /\ uLast' = NoUserLast
    /\ UNCHANGED <<token, userId, loginPc, nUser, nonUserVars>>

\* switchWindowToLogin settles and the finally block runs
LogoutWindow ==
    /\ logoutPc = "window"
    /\ logoutPc' = "none"
    /\ status' = LoginStatus_IDLE
    /\ uLast' = [NoUserLast EXCEPT !.act = "logoutDone"]
    /\ UNCHANGED <<token, userId, loginPc, nUser, nonUserVars>>

UserInit ==
    /\ token = ""
    /\ status = LoginStatus_IDLE
    /\ userId = ""
    /\ loginPc = "none"
    /\ logoutPc = "none"
    /\ nUser = 0
    /\ uLast = NoUserLast

Init == ChatInit /\ QueueInit /\ GroupInit /\ RecallInit /\ CodecInit /\ DraftInit /\ EditorInit /\ StreamInit
        /\ ListInit /\ CoreInit /\ UserInit

Next ==
    \/ InitChat
    \/ \E p \in Slots : InitChatResume(p)
    \/ \E c \in Chats : \E m \in Messages(c) : HandleChatMessage(c, m)
    \/ \E p \in Slots : CouQuery(p)
    \/ \E p \in Slots : CouResume(p)
    \/ \E p \in Slots : CouFetch(p)
    \/ Send
    \/ \E p \in Slots : SendResume(p)
    \/ \E c \in Chats : HandleChooseChat(c)
    \/ \E p \in Slots : ChangeChatCall(p)
    \/ \E p \in Slots : ChangeChatSelect(p)
    \/ \E p \in Slots : ChangeChatResume(p)
    \/ \E p \in Slots : ChangeChatMembers(p)
    \/ \E p \in Slots : HandleChooseChatRead(p)
    \/ ChangeChatNull
    \/ \E t \in ToIds : ChangeChatByTargetExisting(t)
    \/ \E t \in ToIds : ChangeChatByTargetNew(t)
    \/ \E p \in Slots : ChangeChatByTargetResume(p)
    \/ \E c \in Chats : TogglePin(c)
    \/ \E p \in Slots : TogglePinResume(p)
    \/ \E c \in Chats : ToggleMute(c)
    \/ \E p \in Slots : ToggleMuteResume(p)
    \/ \E p \in Slots : TogglePinFail(p)
    \/ \E p \in Slots : ToggleMuteFail(p)
    \/ \E c \in Chats : DeleteChat(c)
    \/ \E blank \in BOOLEAN : SetDraft(blank)
    \/ Tick
    \/ RunTask

Spec == Init /\ [][Next]_vars

\* ------------------------------------------------------ properties of Spec
Reconciled == last.act = "createOrUpdate"
ReconciledEntry == Entry(chatList, last.chat)
WasOpen == last.cur = last.chat
UnreadBefore == IF last.pre # NoChat THEN last.pre.unread ELSE last.base.unread

C2_OwnMessageNeverUnread ==
    (Reconciled /\ last.msg.fromId = OwnerId)
        => ReconciledEntry.unread <= last.base.unread

\* C3: createOrUpdate of a message whose sequence is lower than the sequence
\* stored on the list entry leaves the entry's sequence and messageTime no
\* lower than before and its preview as it was.
C3_NoRegression ==
    (Reconciled /\ last.pre # NoChat /\ last.msg.sequence < last.pre.sequence)
        => /\ ReconciledEntry.sequence >= last.pre.sequence
           /\ ReconciledEntry.messageTime >= last.pre.messageTime
           /\ ReconciledEntry.message = last.pre.message

\* C4: whenever no chat-store operation is in flight, the list is sorted by
\* isTop descending, then messageTime descending.
C4_SortedWhenQuiet == Quiet => IsSorted(chatList)

Agree(row, entry) ==
    /\ row.unread = entry.unread
    /\ row.isTop = entry.isTop
    /\ row.isMute = entry.isMute
    /\ row.messageTime = entry.messageTime
    /\ row.sequence = entry.sequence

C10_StoreAgreesWhenIdle ==
    (Quiet /\ tasks = <<>>)
        => \A c \in Chats :
            (db[c] # NoChat /\ InList(chatList, c)) => Agree(db[c], Entry(chatList, c))

\* ------------------------------------------------- inbound priority queue
Codes ==
    {"REGISTER_SUCCESS", "REGISTER_FAILED", "HEART_BEAT", "HEART_BEAT_SUCCESS",
     "HEART_BEAT_FAILED", "FORCE_LOGOUT", "LOGIN_EXPIRED", "REFRESH_TOKEN",
     "SINGLE_MESSAGE", "GROUP_MESSAGE", "VIDEO_MESSAGE", "GROUP_OPERATION",
     "MESSAGE_OPERATION"}

\* codes whose data is decoded into a message model by the handler
DecodedCodes == {"SINGLE_MESSAGE", "GROUP_MESSAGE", "MESSAGE_OPERATION"}

\* codes the handler returns on before it looks at data
SilentCodes ==
    {"REGISTER_SUCCESS", "HEART_BEAT_SUCCESS", "REGISTER_FAILED", "HEART_BEAT_FAILED"}

\* data of an envelope: absent, well formed, messageBody a string that is not
\* JSON, or a messageContentType without a body class
Datas(code) ==
    IF code \in DecodedCodes THEN {"none", "ok", "badJson", "unknownType"}
    ELSE IF code \in SilentCodes THEN {"none"}
    ELSE {"none", "ok"}

\* getMessagePriority with every code in the NORMAL lane
getMessagePriority_AllNormal(code) == "NORMAL"

getMessagePriority(code) ==
    IF code \in {"FORCE_LOGOUT", "LOGIN_EXPIRED"} THEN "URGENT"
    ELSE IF code = "VIDEO_MESSAGE" THEN "HIGH"
    ELSE IF code \in {"HEART_BEAT_SUCCESS", "REGISTER_SUCCESS"} THEN "LOW"
    ELSE "NORMAL"

\* ids of the envelopes queued in any lane
Queued(q) ==
    UNION {{q[l][i].id : i \in 1..Len(q[l])} : l \in DOMAIN q}

\* the lane the queue drains next: strict priority order
FirstLane(q) ==
    IF q["URGENT"] # <<>> THEN "URGENT"
    ELSE IF q["HIGH"] # <<>> THEN "HIGH"
    ELSE IF q["NORMAL"] # <<>> THEN "NORMAL"
    ELSE IF q["LOW"] # <<>> THEN "LOW"
    ELSE "none"

\* createMessageBody: TRUE when it throws
createMessageBodyThrows(data) == data \in {"badJson", "unknownType"}

\* handleChatMessage: the store calls it makes, and whether it throws
handleChatMessage(data) ==
    IF createMessageBodyThrows(data)
    THEN [calls |-> <<>>, threw |-> TRUE]
    ELSE [calls |-> <<"createOrUpdate", "createMessage">>, threw |-> FALSE]

\* the callback chained on push: the calls it makes, and whether it throws
Outcome(code, data) ==
    IF code \in {"REGISTER_SUCCESS", "HEART_BEAT_SUCCESS"}
    THEN [calls |-> <<>>, threw |-> FALSE]
    ELSE IF code = "REGISTER_FAILED" THEN [calls |-> <<"prettyError">>, threw |-> FALSE]
    ELSE IF code = "HEART_BEAT_FAILED" THEN [calls |-> <<"prettyWarn">>, threw |-> FALSE]
    ELSE IF data = "none" THEN [calls |-> <<>>, threw |-> FALSE]
    ELSE IF code \in {"FORCE_LOGOUT", "LOGIN_EXPIRED"}
    THEN [calls |-> <<"forceLogout">>, threw |-> FALSE]
    ELSE IF code = "REFRESH_TOKEN" THEN [calls |-> <<"refreshToken">>, threw |-> FALSE]
    ELSE IF code \in {"SINGLE_MESSAGE", "GROUP_MESSAGE"} THEN handleChatMessage(data)
    ELSE IF code = "VIDEO_MESSAGE" THEN [calls |-> <<"handleCallMessage">>, threw |-> FALSE]
    ELSE IF code = "GROUP_OPERATION"
    THEN [calls |-> <<"applyGroupOperation">>, threw |-> FALSE]
    ELSE IF code = "MESSAGE_OPERATION"
    THEN IF createMessageBodyThrows(data)
         THEN [calls |-> <<>>, threw |-> TRUE]
         ELSE [calls |-> <<"handleReCallMessage">>, threw |-> FALSE]
    ELSE [calls |-> <<>>, threw |-> FALSE]

\* a consumer that stops running callbacks once one of them has rejected
Pending_HaltsOnRejection(res, hnd, unc) ==
    IF Len(hnd) < Len(res) /\ unc = {} THEN Len(hnd) + 1 ELSE 0

\* position in res of the next callback to run, 0 if none: every push has a
\* promise chain of its own, so a rejected callback (unc) stops no other one
Pending(res, hnd, unc) ==
    IF Len(hnd) < Len(res) THEN Len(hnd) + 1 ELSE 0

\* handleMessage up to the push: the envelope enters the lane of its priority
HandleMessage(code, data) ==
    /\ nPushed < MaxPush
    /\ LET item == [id |-> nPushed + 1, code |-> code, data |-> data,
                    priority |-> getMessagePriority(code),
                    ahead |-> Queued(lanes),
                    afterThrow |-> uncaught # {}]
       IN  lanes' = [lanes EXCEPT ![item.priority] = Append(@, item)]
    /\ nPushed' = nPushed + 1
    /\ UNCHANGED <<resolved, handled, uncaught, nonQueueVars>>

\* one step of the drain loop: the head of the first non-empty lane is resolved
Drain ==
    /\ FirstLane(lanes) # "none"
    /\ resolved' = Append(resolved, Head(lanes[FirstLane(lanes)]))
    /\ lanes' = [lanes EXCEPT ![FirstLane(lanes)] = Tail(@)]
    /\ UNCHANGED <<nPushed, handled, uncaught, nonQueueVars>>

\* the callback chained on push runs for the next resolved envelope
HandleMessageThen ==
    /\ Pending(resolved, handled, uncaught) # 0
    /\ LET item == resolved[Pending(resolved, handled, uncaught)]
           out == Outcome(item.code, item.data)
       IN  /\ handled' = Append(handled, out)
           /\ uncaught' = IF out.threw THEN uncaught \cup {item.id} ELSE uncaught
    /\ UNCHANGED <<lanes, nPushed, resolved, nonQueueVars>>

QueueNext ==
    \/ \E code \in Codes : \E data \in Datas(code) : HandleMessage(code, data)
    \/ Drain
    \/ HandleMessageThen

QueueSpec == Init /\ [][QueueNext]_vars

FairQueueSpec == QueueSpec /\ WF_vars(Drain) /\ WF_vars(HandleMessageThen)

\* ------------------------------------------------- properties of QueueSpec
QueuedTogether(a, b) == a.id \in b.ahead \/ b.id \in a.ahead

\* C5: of two envelopes that were queued at the same time, a non-URGENT one is
\* never resolved before an URGENT one; and a FORCE_LOGOUT that was queued
\* together with a HEART_BEAT_SUCCESS has its handler run first.
C5_UrgentFirst ==
    /\ \A j, k \in 1..Len(resolved) :
         (j < k /\ QueuedTogether(resolved[j], resolved[k]))
            => ~(resolved[j].priority # "URGENT" /\ resolved[k].priority = "URGENT")
    /\ \A j, k \in 1..Len(handled) :
         (j < k /\ QueuedTogether(resolved[j], resolved[k]))
            => ~(resolved[j].code = "HEART_BEAT_SUCCESS"
                    /\ resolved[k].code = "FORCE_LOGOUT")

C5_Witness ==
    \E j, k \in 1..Len(handled) :
        /\ j < k
        /\ resolved[j].code = "FORCE_LOGOUT"
        /\ resolved[k].code = "HEART_BEAT_SUCCESS"
        /\ resolved[k].id \in resolved[j].ahead

\* the priority table of the specification
SpecifiedPriority(code) ==
    IF code \in {"FORCE_LOGOUT", "LOGIN_EXPIRED", "REFRESH_TOKEN"} THEN "URGENT"
    ELSE IF code = "VIDEO_MESSAGE" THEN "HIGH"
    ELSE IF code \in {"HEART_BEAT", "HEART_BEAT_SUCCESS", "HEART_BEAT_FAILED"} THEN "LOW"
    ELSE "NORMAL"

TableCodes ==
    {"FORCE_LOGOUT", "LOGIN_EXPIRED", "REFRESH_TOKEN", "VIDEO_MESSAGE", "HEART_BEAT",
     "HEART_BEAT_SUCCESS", "HEART_BEAT_FAILED", "SINGLE_MESSAGE", "GROUP_MESSAGE",
     "GROUP_OPERATION", "MESSAGE_OPERATION"}

\* C6: every envelope whose code is in the specified table is queued with the
\* priority the table gives: FORCE_LOGOUT, LOGIN_EXPIRED, REFRESH_TOKEN URGENT;
\* VIDEO_MESSAGE HIGH; HEART_BEAT, HEART_BEAT_SUCCESS, HEART_BEAT_FAILED LOW;
\* SINGLE_MESSAGE, GROUP_MESSAGE, GROUP_OPERATION, MESSAGE_OPERATION NORMAL.
C6_PriorityTable ==
    \A l \in DOMAIN lanes : \A i \in 1..Len(lanes[l]) :
        lanes[l][i].code \in TableCodes
            => lanes[l][i].priority = SpecifiedPriority(lanes[l][i].code)

\* C7: a SINGLE/GROUP message whose messageBody is not valid JSON or whose
\* messageContentType has no body class is still reconciled and stored once
\* its handler has run, and the handler raises no uncaught error.
C7_BadBodyNotDiscarded ==
    \A k \in 1..Len(handled) :
        (resolved[k].code \in {"SINGLE_MESSAGE", "GROUP_MESSAGE"}
            /\ resolved[k].data \in {"badJson", "unknownType"})
            => /\ handled[k].calls = <<"createOrUpdate", "createMessage">>
               /\ resolved[k].id \notin uncaught

IsHandled(i) == \E k \in 1..Len(handled) : resolved[k].id = i

\* C8: every pushed envelope is eventually resolved and its handler run,
\* whether or not the handler of another envelope has thrown.
C8_EveryPushHandled ==
    \A i \in 1..MaxPush : [](nPushed >= i => <>IsHandled(i))

C8_Witness ==
    \E k \in 1..Len(handled) :
        /\ resolved[k].afterThrow
        /\ ~handled[k].threw
        /\ handled[k].calls # <<>>

\* C32: the handler of every resolved FORCE_LOGOUT or LOGIN_EXPIRED envelope
\* calls forceLogout, whatever the envelope's data is.
C32_LogoutAlwaysForced ==
    \A k \in 1..Len(handled) :
        resolved[k].code \in {"FORCE_LOGOUT", "LOGIN_EXPIRED"}
            => handled[k].calls = <<"forceLogout">>

\* --------------------------------------------------- specification GroupSpec
GroupNext ==
    \/ \E o \in GroupOps : ApplyGroupOperation(o)
    \/ \E g \in GroupIds : LoadMembers(g)
    \/ \E g \in GroupIds : LoadMembersResume(g)
    \/ \E g \in GroupIds : LoadGroupInfo(g)
    \/ \E g \in GroupIds : LoadGroupInfoResume(g)
    \/ \E u \in GroupUsers : TransferOwner(u)
    \/ \E u \in GroupUsers : TransferOwnerResume(u)
    \/ GroupReset
    \/ GroupTick

GroupSpec == Init /\ [][GroupNext]_vars

\* ------------------------------------------------- properties of GroupSpec
Applied(type) ==
    /\ gLast.act = "applyGroupOperation"
    /\ gLast.op.groupId # ""
    /\ gLast.op.operationType = type

\* C11: a TRANSFER_GROUP_OWNER event applied to a member map with exactly one
\* owner leaves exactly one owner, the target, and the previous owner a MEMBER,
\* whatever operatorId and targetUserId the event carries.
C11_TransferKeepsOneOwner ==
    (Applied(TRANSFER_GROUP_OWNER) /\ Cardinality(Owners(gLast.before.members)) = 1)
        => /\ Owners(group.members) = {gLast.op.targetUserId}
           /\ \A u \in Owners(gLast.before.members) :
                u # gLast.op.targetUserId
                    => group.members[u].role = GroupMemberRole_MEMBER

\* the handlers that change state before applyGroupOperation returns
SyncTypes == HandledTypes \ {JOIN_GROUP}

\* C12: applying the event that was just applied a second time changes neither
\* the members map nor the group info, for every synchronous handler.
C12_ReplayChangesNothing ==
    (gLast.act = "applyGroupOperation" /\ gLast.op.operationType \in SyncTypes)
        => applyGroupOperation(group, gLast.op, now) = group

\* C13: an event whose operationType has no handler leaves members, info and
\* currentGroupId as they were.
C13_UnknownTypeIgnored ==
    (gLast.act = "applyGroupOperation" /\ gLast.op.operationType \notin HandledTypes)
        => /\ group.members = gLast.before.members
           /\ group.info = gLast.before.info
           /\ group.currentGroupId = gLast.before.currentGroupId

C13_Witness ==
    /\ gLast.act = "applyGroupOperation"
    /\ gLast.op.operationType \in UnhandledTypes
    /\ gLast.op.groupId # ""
    /\ group.members # NoMembers
    /\ group.info # NoInfo
    /\ group = gLast.before


\* C28: an operation for a group other than the loaded one leaves the members
\* map, the group info and currentGroupId as they were, whatever its type.
C28_OtherGroupIgnored ==
    (/\ gLast.act = "applyGroupOperation"
     /\ gLast.before.currentGroupId # ""
     /\ gLast.op.groupId # gLast.before.currentGroupId)
    => /\ group.members = gLast.before.members
       /\ group.info = gLast.before.info
       /\ group.currentGroupId = gLast.before.currentGroupId

\* C33: when a loadMembers response has just been put in the members map and
\* no loadMembers call is pending any more, the map is that of the group
\* currentGroupId names.
C33_MembersOfCurrentGroup ==
    (/\ gLast.act = "loadMembers"
     /\ group.currentGroupId # ""
     /\ \A q \in gPending : q.kind # "loadMembers")
    => gLast.op.groupId = group.currentGroupId

\* --------------------------------------------------- specification GuardSpec
\* the group store with its guarded actions, the member map and the group info
\* loaded from the server
GuardNext ==
    \/ \E g \in GroupIds : LoadMembers(g)
    \/ \E g \in GroupIds : LoadMembersResume(g)
    \/ \E g \in GroupIds : LoadGroupInfo(g)
    \/ \E g \in GroupIds : LoadGroupInfoResume(g)
    \/ \E u \in GroupUsers : TransferOwner(u)
    \/ \E u \in GroupUsers : TransferOwnerResume(u)
    \/ \E k \in GuardedCalls : \E u \in Targets(k) : GuardedCall(k, u)
    \/ \E k \in GuardedCalls : \E u \in Targets(k) : GuardedResume(k, u)

GuardSpec == Init /\ [][GuardNext]_vars

\* ------------------------------------------------- properties of GuardSpec
\* the roles the specification lets call action k
Allowed(k, role) ==
    CASE k \in {"kickMember", "muteMember", "setJoinMode", "setMuteAll", "setAnnouncement"} ->
            role \in {GroupMemberRole_OWNER, GroupMemberRole_ADMIN}
      [] k \in {"setAdmin", "transferOwner", "dismissGroup"} -> role = GroupMemberRole_OWNER
      [] OTHER -> role # GroupMemberRole_OWNER

\* C36: a guarded group action called by a user whose role fails its guard
\* returns false, leaves members and info as they were and starts no server
\* call; one whose server call fails returns false and leaves the group state
\* as it was
C36_GuardedActionsRefuse ==
    [][/\ (gLast'.act = "call" /\ ~Allowed(gLast'.call, currentRole(group)))
            => /\ gLast'.ret = "false"
               /\ gPending' = gPending
               /\ group'.members = group.members
               /\ group'.info = group.info
       /\ (gLast'.act = "resume" /\ ~gLast'.ok)
            => /\ gLast'.ret = "false"
               /\ group' = group]_vars

\* an ordinary member has just been refused kicking a member of the group
C36_Witness ==
    /\ gLast.act = "call"
    /\ gLast.call = "kickMember"
    /\ gLast.ret = "false"
    /\ group.members[OwnerId].role = GroupMemberRole_MEMBER
    /\ group.members["u2"] # NoMember
    /\ group.info # NoInfo

\* ---------------------------------------------------- specification MuteSpec
\* the group store under the events that mute and unmute, with isMuted called
\* at any moment
MuteNext ==
    \/ \E g \in GroupIds : LoadMembers(g)
    \/ \E g \in GroupIds : LoadMembersResume(g)
    \/ \E g \in GroupIds : LoadGroupInfo(g)
    \/ \E g \in GroupIds : LoadGroupInfoResume(g)
    \/ \E o \in MuteOps : ApplyGroupOperation(o)
    \/ \E u \in GroupUsers : IsMuted(u)
    \/ MuteTick

MuteSpec == Init /\ [][MuteNext]_vars

\* -------------------------------------------------- properties of MuteSpec
\* C39: isMuted(userId) is false for a user the members map does not hold;
\* under mute-all it is true for an ordinary member, and for the owner and
\* the admins it is true exactly when they are individually muted; an
\* individual mute whose end time has passed does not count as a mute
C39_IsMutedByRoleAndTime ==
    gLast.act = "isMuted" =>
        LET m == gLast.before.members[gLast.op.targetUserId]
            all == gLast.before.info.muteAll = GroupMuteStatus_MUTED
            privileged == m.role \in {GroupMemberRole_OWNER, GroupMemberRole_ADMIN}
            passed == m.muteEndTime # 0 /\ m.muteEndTime < gLast.at
            own == m.mute = GroupMuteStatus_MUTED /\ ~passed
        IN /\ m = NoMember => gLast.ret = "false"
           /\ (m # NoMember /\ all /\ ~privileged) => gLast.ret = "true"
           /\ (m # NoMember /\ all /\ privileged) => (gLast.ret = "true" <=> own)
           /\ (m # NoMember /\ ~all) => (gLast.ret = "true" <=> own)

\* isMuted has just been asked, under mute-all, about an admin whose
\* individual mute has run out
C39_Witness ==
    /\ gLast.act = "isMuted"
    /\ gLast.before.info.muteAll = GroupMuteStatus_MUTED
    /\ gLast.before.members[gLast.op.targetUserId].role = GroupMemberRole_ADMIN
    /\ gLast.before.members[gLast.op.targetUserId].mute = GroupMuteStatus_MUTED
    /\ gLast.ret = "false"

\* ---------------------------------------------------- specification CoreSpec
CoreNext ==
    \/ InitClient
    \/ InitAwaited("user", "database")
    \/ InitAwaited("database", "chatStore")
    \/ InitTail
    \/ InitFinally
    \/ WebSocketSettles
    \/ Destroy

CoreSpec == Init /\ [][CoreNext]_vars

\* -------------------------------------------------- properties of CoreSpec
IsPrefix(a, b) == Len(a) <= Len(b) /\ SubSeq(b, 1, Len(a)) = a

\* C37: at most one initialisation sequence runs at a time and its steps
\* start in the order user, database, chat store, WebSocket, listeners,
\* background tasks; a call made while one is in flight shares its promise, a
\* call made after success returns without running it, a call made after a
\* failure runs it again; a rejection leaves initialized false, and a sequence
\* whose WebSocket initialisation failed still resolves
C37_InitSingleFlight ==
    /\ running <= 1
    /\ IsPrefix(initLog, InitSteps)
    /\ iLast.act = "initClient" =>
         /\ iLast.wasInitialized => iLast.ret = "returned"
         /\ (~iLast.wasInitialized /\ iLast.wasPromise) => iLast.ret = "shared"
         /\ (~iLast.wasInitialized /\ ~iLast.wasPromise) => iLast.ret = "started"
         /\ iLast.ret # "started" =>
              running = iLast.wasRunning /\ initPc = iLast.wasPc
    /\ initPc = "rejected" => ~clientInitialized
    /\ (iLast.act = "webSocket" /\ iLast.ret = "failed") =>
         /\ initPc = iLast.wasPc
         /\ clientInitialized = iLast.wasInitialized
         /\ initPromise = iLast.wasPromise

\* a call of initClient has just joined the initialisation in flight
C37_Witness ==
    /\ iLast.act = "initClient"
    /\ iLast.ret = "shared"
    /\ running = 1
    /\ initPc = "database"

\* ---------------------------------------------------- specification UserSpec
UserNext ==
    \/ Login
    \/ LoginApi
    \/ LoginStored
    \/ LoginWindow
    \/ Logout(FALSE)
    \/ ForceLogout
    \/ LogoutCleared
    \/ LogoutWindow

UserSpec == Init /\ [][UserNext]_vars

\* -------------------------------------------------- properties of UserSpec
\* C38: a login that has just rejected leaves status IDLE and no token in
\* memory, and the token in memory is empty whenever status is IDLE
C38_IdleHasNoToken ==
    /\ uLast.act = "loginRejected" => status = LoginStatus_IDLE /\ token = ""
    /\ status = LoginStatus_IDLE => token = ""

\* -------------------------------------------------- specification RecallSpec
RecallNext ==
    \/ \E m \in MsgIds : CreateMessage(m)
    \/ \E c \in Chats : OpenChat(c)
    \/ \E c \in Chats : LoadCall(c)
    \/ LoadRead
    \/ LoadResume
    \/ \E d \in Directives : HandleRecall(d)
    \/ \E d \in EditDirectives : HandleMessageOperation(d, MessageContentType_EDIT_MESSAGE)
    \/ RunMsgTask
    \/ RecallTick

RecallSpec == Init /\ [][RecallNext]_vars

\* ------------------------------------------------ properties of RecallSpec
\* the visible list, the message rows and the shadow rows after the directive
\* just handled is handled once more and its idle task has run
HandledAgain ==
    LET d == rLast.d
        task == RecallTask(d, currentChat, group.members, now)
    IN  [list |-> RecallInList(messageList, d, currentChat, group.members, now),
         rows |-> ApplyMsgTask(msgDb, task),
         fts |-> ApplyMsgTaskFts(msgFts, task)]

\* C14: once a recall directive has been handled and its idle task has run,
\* handling the same directive again changes neither the visible list nor the
\* stored row; the list has kept its length and order; and the message has no
\* full-text shadow row.
C14_RecallIdempotent ==
    (rLast.act = "handleRecall" /\ rLast.d.messageId # "" /\ msgTasks = <<>>)
        => /\ HandledAgain = [list |-> messageList, rows |-> msgDb, fts |-> msgFts]
           /\ rLast.d.messageId \notin msgFts
           /\ \A i \in 1..Len(messageList) :
                messageList[i].messageId = rLast.d.messageId
                    => messageList[i].messageContentType = MessageContentType_RECALL_MESSAGE

\* C31: a message operation that is not a recall turns no entry of the visible
\* list into a tombstone and schedules no task that writes a tombstone and
\* deletes the shadow row.
C31_OnlyRecallMakesTombstone ==
    [][(nRecalls' # nRecalls /\ rLast'.contentType # MessageContentType_RECALL_MESSAGE)
        => /\ \A i \in 1..Len(messageList') :
                messageList'[i].messageContentType = MessageContentType_RECALL_MESSAGE
                    => messageList[i].messageContentType = MessageContentType_RECALL_MESSAGE
           /\ Len(msgTasks') > Len(msgTasks)
                => msgTasks'[Len(msgTasks')].type # "recall"]_vars

\* C35: once a recall directive has been handled and no history load and no
\* idle task is pending, every entry of the visible list with the directive's
\* messageId is a tombstone.
C35_NoOriginalAfterRecall ==
    (/\ rLast.act = "handleRecall"
     /\ rLast.d.messageId # ""
     /\ msgTasks = <<>>
     /\ msgLoad = NoLoad)
    => \A i \in 1..Len(messageList) :
        messageList[i].messageId = rLast.d.messageId
            => /\ messageList[i].messageContentType = MessageContentType_RECALL_MESSAGE
               /\ messageList[i].messageBody.recalled

\* --------------------------------------------------- specification CodecSpec
CodecNext ==
    \/ \E type \in BodyTypes : \E b \in BodiesOf(type) : BuildBody(type, b)
    \/ StringifyBody
    \/ CreateMessageBody

CodecSpec == Init /\ [][CodecNext]_vars

\* ------------------------------------------------- properties of CodecSpec
\* C15: for every supported content type and every body of that type, bodies
\* built for sending with replyMessage, mention fields or a local path
\* included, createMessageBody(stringifyBody(body), type) is deep-equal to
\* body (a property left undefined counts as absent).
C15_RoundTrip ==
    codecStep = "decoded" => decoded = body

\* --------------------------------------------------- specification DraftSpec
DraftNext ==
    \/ \E id \in DraftIds, html \in Htmls : Set(id, html)
    \/ \E id \in DraftIds : Clear(id)

DraftSpec == Init /\ [][DraftNext]_vars

\* ------------------------------------------------- properties of DraftSpec
\* the map the storage entry holds
PersistedDrafts ==
    IF draftStore.present THEN DraftParse(draftStore.text) ELSE NoDrafts

EditorNext ==
    \/ \E c \in Chats : SwitchChat(c)
    \/ \E html \in TypedIn(currentChat) \cup {<<>>, <<" ">>} : Input(html)
    \/ Click
    \/ SaveDraftDebounced
    \/ HandleSend
    \/ HandleSendResume
    \/ Cleanup
    \/ Mount

EditorSpec == Init /\ [][EditorNext]_vars

\* ------------------------------------------------ properties of EditorSpec
\* C16: a debounced draft save still pending when the user switches
\* conversation never writes the editor content of another conversation into
\* a draft: the draft stored for a chatId only ever holds content typed while
\* that chat was open.
C16_DraftHoldsOwnContent ==
    \A c \in Chats :
        ToString(c) \in DOMAIN draftMap => draftMap[ToString(c)] \in TypedIn(c)

\* -------------------------------------------------- specification StreamSpec
StreamNext ==
    \/ \E p \in Priorities : Push(p)
    \/ \E p \in Priorities : PushStream(p)
    \/ DrainCycle

StreamSpec == Init /\ [][StreamNext]_vars

FairStreamSpec == StreamSpec /\ WF_vars(DrainCycle)

\* ------------------------------------------------ properties of StreamSpec
IsQueued(i) == tracked[i].priority # "none" /\ tracked[i].count = 0

IsResolved(i) == tracked[i].count = 1

\* an item of a lane above the lane of i is queued while i is
Overtaken(i) ==
    /\ IsQueued(i)
    /\ \E p \in Priorities : Rank(p) < Rank(tracked[i].priority) /\ sLanes[p] # <<>>

\* C18: every item pushed is eventually resolved exactly once, for every
\* priority, LOW included, under any continuing stream of pushes.
C18_AlwaysResolved ==
    \A i \in 1..MaxTracked : IsQueued(i) ~> IsResolved(i)

\* C18, as it holds: no item is resolved twice, and an item of any priority is
\* eventually resolved unless items of a higher priority keep being queued
\* ahead of it.
C18_ResolvedUnlessOvertaken ==
    /\ [](\A i \in 1..MaxTracked : tracked[i].count <= 1)
    /\ \A i \in 1..MaxTracked : IsQueued(i) ~> (IsResolved(i) \/ Overtaken(i))

\* a LOW item was resolved after it had waited through drain cycles
C18_Witness ==
    \E i \in 1..MaxTracked :
        /\ IsResolved(i)
        /\ tracked[i].priority = "LOW"
        /\ tracked[i].waited >= 1

\* C19: while more than backpressureThreshold NORMAL/LOW items are queued and
\* URGENT items keep being pushed, every URGENT item is resolved by the first
\* drain cycle after its push: no queued URGENT item has been through a cycle.
C19_UrgentWithinOneCycle ==
    \A k \in 1..Len(sLanes["URGENT"]) : sLanes["URGENT"][k].waited = 0

\* a cycle under backpressure resolved URGENT items, and a LOW item is left
\* queued after at least two cycles
C19_Witness ==
    /\ sLast.act = "drain"
    /\ sLast.lowerBefore > backpressureThreshold
    /\ sLast.urgent >= 1
    /\ \E k \in 1..Len(sLanes["LOW"]) : sLanes["LOW"][k].waited >= 2

\* ------------------------------------------ properties of Spec: idle tasks
\* new is old with tasks added at its end
TasksAdded(old, new) ==
    Len(new) > Len(old) /\ SubSeq(new, 1, Len(old)) = old

\* C20: the tasks given to the idle task executor run in the order they were
\* added and never inside addTask: a step that adds tasks puts them behind the
\* queued ones and leaves the store alone, and the only task that leaves the
\* queue is the oldest one, applied to the store as it leaves; so the
\* persistence tasks of one chat reach the store in mutation order.
C20_IdleTasksFifo ==
    [][tasks' # tasks =>
            \/ /\ TasksAdded(tasks, tasks')
               /\ db' = db
               /\ chatFts' = chatFts
            \/ /\ tasks # <<>>
               /\ tasks' = Tail(tasks)
               /\ db' = ApplyTask(db, Head(tasks))
               /\ chatFts' = ApplyTaskFts(chatFts, Head(tasks))]_vars

\* the first persistence task of a chat has been applied and two later ones,
\* with different rows, are queued in the order of their mutations
C20_Witness ==
    /\ Len(tasks) >= 2
    /\ tasks[1].chatId = tasks[2].chatId
    /\ tasks[1].type = "insertOrUpdate"
    /\ tasks[2].type = "insertOrUpdate"
    /\ tasks[1].row # tasks[2].row
    /\ db[tasks[1].chatId] # NoChat

\* C34: no two entries of the chat list have the same chatId.
C34_NoDuplicateChatId ==
    \A i, j \in 1..Len(chatList) : i # j => chatList[i].chatId # chatList[j].chatId

\* an operation has just put a chat into a list that already held an entry
\* with its chatId, next to another conversation
C34_Witness ==
    /\ last.act \in {"createOrUpdate", "createChat", "changeChat"}
    /\ last.pre # NoChat
    /\ last.src = "server"
    /\ Len(chatList) = NumChats

\* C22: a togglePin or toggleMute whose store update failed does not throw to
\* its caller, leaves the flag toggled in memory and leaves the list sorted.
C22_ToggleFailureContained ==
    last.act \in {"togglePinFailed", "toggleMuteFailed"} =>
        /\ ~last.threw
        /\ last.act = "togglePinFailed" => last.pre.isTop = last.base.isTop
        /\ last.act = "toggleMuteFailed" => last.pre.isMute = last.base.isMute
        /\ IsSorted(chatList)

\* C23: createOrUpdate plays no message alert for a conversation whose entry
\* in the list is muted.
C23_MutedStaysSilent ==
    (last.act = "createOrUpdate" /\ last.pre # NoChat /\ last.pre.isMute = 1) => ~last.played

\* C24: createOrUpdate takes a server copy only for a conversation that is not
\* in the list: an entry of the list is never overwritten by a fetched chat.
C24_MemoryBeforeServer ==
    (last.act = "createOrUpdate" /\ last.src = "server") => last.pre = NoChat

\* C25: the step of a createOrUpdate whose store query or whose store query
\* and server fetch failed does not throw and leaves the chat list and the
\* task queue alone, and loading is false once both have failed.
C25_FailuresContained ==
    [][last'.act \in {"queryFailed", "createOrUpdateFailed"} =>
        /\ ~last'.threw
        /\ chatList' = chatList
        /\ tasks' = tasks
        /\ last'.act = "createOrUpdateFailed" => ~loading']_vars

C25_Witness ==
    last.act = "createOrUpdateFailed" /\ ~loading /\ chatList # <<>>

\* C26: a conversation enters the chat list only through a message merged by
\* createOrUpdate, through a chat created by changeChatByTarget or through the
\* load of initChat; a deleted conversation that no message has arrived for
\* stays out of the list.
C26_DeletedStaysOut ==
    [][\A c \in Chats :
        (~InList(chatList, c) /\ InList(chatList', c)) =>
            last'.act \in {"createOrUpdate", "createChat", "initChat"}]_vars

\* ---------------------------------------------------- specification ListSpec
ListNext ==
    \/ \E c \in Chats : ChooseChat(c)
    \/ \E f \in flows : ChooseChatChange(f)
    \/ \E f \in flows : ChooseChatOpen(f)
    \/ \E f \in flows : ChooseChatMembers(f)
    \/ \E f \in flows : GetMessagesCount(f)
    \/ \E f \in flows : GetMessagesFind(f)
    \/ LoadMore
    \/ CloseChat
    \/ \E c \in Chats : ResolveChatMessage(c)
    \/ \E w \in waiting : ChatMessageResume(w)
    \/ SetNotification

ListSpec == Init /\ [][ListNext]_vars

\* -------------------------------------------------- properties of ListSpec
\* C21: the messages of the open conversation are in the visible list in the
\* order the queue resolved their envelopes.
C21_AppendsInArrivalOrder ==
    \A i, j \in 1..Len(vList) :
        (i < j /\ vList[i].n > 0 /\ vList[j].n > 0) => vList[i].n < vList[j].n

\* C27: while one conversation has been opened once, the stored messages in
\* the visible list run from the oldest page to the newest: every message of
\* an older page precedes every message of a newer page, none is there twice.
C27_OlderPagesFirst ==
    nChosen <= 1 =>
        \A i, j \in 1..Len(vList) :
            (i < j /\ vList[i].n = 0 /\ vList[j].n = 0) => vList[i].age > vList[j].age

\* C29: every message of the visible list belongs to the open conversation,
\* and the list is empty when no conversation is open.
C29_ListOfOpenChat ==
    /\ \A i \in 1..Len(vList) : vList[i].chat = currentChat
    /\ currentChat = 0 => vList = <<>>

\* C30: when no changeChat call is in progress, the open conversation is the
\* one the changeChat call invoked last was called with.
C30_LastInvokedWins ==
    (\A f \in flows : f.pc \notin {"selectById", "loadMembers"}) => currentChat = invoked

====
